---- MODULE Spec2Model ----
(***************************************************************************)
(* Model of wdio-camera-service's FormatConverter                          *)
(* (src/services/format-converter.ts): the extension classifier, the       *)
(* content fingerprint, the cache lookup and the convert operation with    *)
(* the external encoder subprocess, over a filesystem of paths; of the     *)
(* encoder availability probe (checkFfmpegAvailability and                 *)
(* getInstallationInstructions); and of CameraService                      *)
(* (src/services/camera.service.ts): onPrepare, onWorkerStart, before and  *)
(* the changeCameraSource command, for a launcher and two workers.  The    *)
(* test runner goes on to start the workers after an onPrepare that threw  *)
(* an Error other than SevereServiceError.                                 *)
(*                                                                         *)
(* Paths are records [abs, dir, base, ext]: dir is the sequence of         *)
(* directory names, base and ext are what path.basename(p, extname(p)) and *)
(* path.extname(p) return; ext is a sequence of one-character strings so   *)
(* that toLowerCase acts on it character by character.                     *)
(* File bytes are run-length encoded: <<[b |-> "a", n |-> 65536]>> is      *)
(* 65536 bytes "a".  SHA-256 is idealised as collision free: the digest of *)
(* a byte sequence is that (normalised) byte sequence.                     *)
(***************************************************************************)
EXTENDS Integers, Sequences, FiniteSets, TLC

(* ---------------------------------------------------------------------- *)
(* Bounds                                                                  *)
(* ---------------------------------------------------------------------- *)
\* total number of convert calls begun in one behaviour
MaxCalls == 2

(* ---------------------------------------------------------------------- *)
(* Strings, extensions, classifier                                         *)
(* ---------------------------------------------------------------------- *)
UpperChars == <<"A","B","C","D","E","F","G","H","I","J","K","L","M",
                "N","O","P","Q","R","S","T","U","V","W","X","Y","Z">>

LowerChars == <<"a","b","c","d","e","f","g","h","i","j","k","l","m",
                "n","o","p","q","r","s","t","u","v","w","x","y","z">>

ToLowerChar(ch) ==
    IF \E i \in 1..26 : UpperChars[i] = ch
    THEN LowerChars[CHOOSE i \in 1..26 : UpperChars[i] = ch]
    ELSE ch

\* String.prototype.toLowerCase on an extension
ToLowerCase(ext) == [i \in 1..Len(ext) |-> ToLowerChar(ext[i])]

ExtMjpeg == <<".","m","j","p","e","g">>
ExtY4m   == <<".","y","4","m">>
ExtMp4   == <<".","m","p","4">>
ExtWebm  == <<".","w","e","b","m">>
ExtAvi   == <<".","a","v","i">>
ExtMov   == <<".","m","o","v">>
ExtGif   == <<".","g","i","f">>
ExtPng   == <<".","p","n","g">>
ExtJpg   == <<".","j","p","g">>
ExtJpeg  == <<".","j","p","e","g">>
ExtBmp   == <<".","b","m","p">>
ExtTxt   == <<".","t","x","t">>

\* the table with '.gif' among the image formats
EXTENSION_TO_FORMAT_GifImage ==
    { <<ExtMjpeg, "mjpeg">>, <<ExtY4m, "y4m">>,
      <<ExtMp4, "video">>, <<ExtWebm, "video">>, <<ExtAvi, "video">>,
      <<ExtMov, "video">>, <<ExtGif, "image">>,
      <<ExtPng, "image">>, <<ExtJpg, "image">>, <<ExtJpeg, "image">>,
      <<ExtBmp, "image">> }

\* the table as a set of <<extension, format>> pairs
EXTENSION_TO_FORMAT ==
    { <<ExtMjpeg, "mjpeg">>, <<ExtY4m, "y4m">>,
      <<ExtMp4, "video">>, <<ExtWebm, "video">>, <<ExtAvi, "video">>,
      <<ExtMov, "video">>, <<ExtGif, "video">>,
      <<ExtPng, "image">>, <<ExtJpg, "image">>, <<ExtJpeg, "image">>,
      <<ExtBmp, "image">> }

\* detectFormat without toLowerCase
detectFormat_CaseSensitive(p) ==
    IF \E e \in EXTENSION_TO_FORMAT : e[1] = p.ext
    THEN (CHOOSE e \in EXTENSION_TO_FORMAT : e[1] = p.ext)[2]
    ELSE "unknown"

\* detectFormat(filePath): EXTENSION_TO_FORMAT[extname.toLowerCase()] ?? 'unknown'
detectFormat(p) ==
    LET ext == ToLowerCase(p.ext)
    IN  IF \E e \in EXTENSION_TO_FORMAT : e[1] = ext
        THEN (CHOOSE e \in EXTENSION_TO_FORMAT : e[1] = ext)[2]
        ELSE "unknown"

requiresConversion(p) ==
    LET format == detectFormat(p)
    IN  format = "video" \/ format = "image"

\* the list without '.gif'
SUPPORTED_FORMATS_NoGif ==
    << ExtMjpeg, ExtY4m,
       ExtMp4, ExtWebm, ExtAvi, ExtMov,
       ExtPng, ExtJpg, ExtJpeg, ExtBmp >>

\* UnsupportedFormatError.SUPPORTED_FORMATS
SUPPORTED_FORMATS ==
    << ExtMjpeg, ExtY4m,
       ExtMp4, ExtWebm, ExtAvi, ExtMov,
       ExtPng, ExtJpg, ExtJpeg, ExtGif, ExtBmp >>

(* ---------------------------------------------------------------------- *)
(* Paths                                                                   *)
(* ---------------------------------------------------------------------- *)
\* process.cwd()
Cwd == <<"project">>

\* path.resolve(process.cwd(), p)
Resolve(p) ==
    IF p.abs THEN p ELSE [p EXCEPT !.abs = TRUE, !.dir = Cwd \o p.dir]

\* options.videoDirectory of every converter of the model
VideoDirectory == <<"videos">>

\* this.cacheDir = path.join(options.videoDirectory, '.cache')
CacheDir == VideoDirectory \o <<".cache">>

(* ---------------------------------------------------------------------- *)
(* File bytes and the fingerprint                                          *)
(* ---------------------------------------------------------------------- *)
RECURSIVE Size(_)
\* stats.size of a run-length encoded byte sequence
Size(bytes) ==
    IF bytes = <<>> THEN 0 ELSE Head(bytes).n + Size(Tail(bytes))

RECURSIVE Take(_, _)
\* the first k bytes (fs.readSync(fd, buffer, 0, k, 0))
Take(bytes, k) ==
    IF k = 0 \/ bytes = <<>> THEN <<>>
    ELSE IF Head(bytes).n >= k THEN << [b |-> Head(bytes).b, n |-> k] >>
    ELSE << Head(bytes) >> \o Take(Tail(bytes), k - Head(bytes).n)

RECURSIVE Norm(_)
\* canonical run-length form: no empty run, no two adjacent runs of one byte
Norm(bytes) ==
    IF bytes = <<>> THEN <<>>
    ELSE IF Head(bytes).n = 0 THEN Norm(Tail(bytes))
    ELSE LET rest == Norm(Tail(bytes))
         IN  IF rest # <<>> /\ Head(rest).b = Head(bytes).b
             THEN << [b |-> Head(bytes).b, n |-> Head(bytes).n + Head(rest).n] >>
                  \o Tail(rest)
             ELSE << Head(bytes) >> \o rest

DigitChars == <<"0","1","2","3","4","5","6","7","8","9">>

RECURSIVE SizeToString(_)
\* Number.prototype.toString of a non-negative integer, as bytes
SizeToString(n) ==
    IF n < 10 THEN << [b |-> DigitChars[n + 1], n |-> 1] >>
    ELSE SizeToString(n \div 10) \o << [b |-> DigitChars[(n % 10) + 1], n |-> 1] >>

\* Math.min
Min(a, b) == IF a < b THEN a ELSE b

\* the number of leading bytes that enter the fingerprint (64 KiB)
HashPrefixBytes == 65536

\* crypto.createHash('sha256') over the updates, idealised as injective
Sha256Hex(updates) == [sha256 |-> Norm(updates)]

(* ---------------------------------------------------------------------- *)
(* The world: source files, converter configurations, callers              *)
(* ---------------------------------------------------------------------- *)
None == [kind |-> "none"]

MediaDir == Cwd \o <<"media">>

AbsFile(base, ext) == [abs |-> TRUE, dir |-> MediaDir, base |-> [name |-> base], ext |-> ext]
RelFile(base, ext) == [abs |-> FALSE, dir |-> <<"media">>, base |-> [name |-> base], ext |-> ext]

BytesClip  == << [b |-> "a", n |-> 65536], [b |-> "b", n |-> 1] >>
BytesPhoto == << [b |-> "c", n |-> 1000] >>
BytesFeed  == << [b |-> "d", n |-> 2000] >>
BytesNotes == << [b |-> "e", n |-> 10] >>

\* the files that exist before the first call: <<path, bytes>>
InitialFiles ==
    << <<AbsFile("clip",  ExtMp4),                BytesClip>>,
       <<AbsFile("copy",  <<".","M","P","4">>),   BytesClip>>,
       <<AbsFile("photo", ExtPng),                BytesPhoto>>,
       <<AbsFile("photo", ExtMjpeg),              BytesFeed>>,
       <<AbsFile("feed",  <<".","Y","4","M">>),   BytesFeed>>,
       <<AbsFile("notes", ExtTxt),                BytesNotes>> >>

\* paths at which no file exists
MissingArgs ==
    { AbsFile("gone", ExtMp4), AbsFile("gone", ExtMjpeg), AbsFile("gone", ExtTxt) }

\* the sourcePath arguments of convert: every file except
\* photo.mjpeg (which a conversion of photo.png can replace), clip.mp4 and
\* feed.Y4M also relative to the working directory, and the missing paths
SourceArgs ==
    ({ InitialFiles[i][1] : i \in 1..Len(InitialFiles) } \ { AbsFile("photo", ExtMjpeg) })
    \cup MissingArgs
    \cup { RelFile("clip", ExtMp4), RelFile("feed", <<".","Y","4","M">>) }

\* the sourcePath arguments of getCachedPath
LookupArgs ==
    { AbsFile("clip", ExtMp4), RelFile("clip", ExtMp4), AbsFile("copy", <<".","M","P","4">>),
      AbsFile("gone", ExtMp4) }

OutMjpeg == <<"m","j","p","e","g">>
OutY4m   == <<"y","4","m">>

\* FormatConverterOptions: cacheEnabled and outputFormat (videoDirectory is
\* VideoDirectory and ffmpegPath is 'ffmpeg' for every converter)
Configs == [cacheEnabled : BOOLEAN, outputFormat : {OutMjpeg, OutY4m}]

\* the options the camera service constructs a FormatConverter with
\* (videoDirectory and ffmpegPath aside)
Options ==
    [cacheEnabled : BOOLEAN, outputFormat : {OutMjpeg, OutY4m},
     imageFrameRate : {24, 30}, imageDuration : {5, 10}]

\* constructor(options): the fields the converter keeps
FormatConverter(options) ==
    [cacheEnabled |-> options.cacheEnabled, outputFormat |-> options.outputFormat]

\* the callers, each with a converter of its own on the shared directory,
\* whose calls may overlap
Calls == {"p", "q"}

(* ---------------------------------------------------------------------- *)
(* State                                                                   *)
(* ---------------------------------------------------------------------- *)
VARIABLES
    fs,       \* the files: absolute path -> [data, owner, mixed, by]
    dirs,     \* the directories that exist
    converter,\* per caller: the options its FormatConverter was constructed with
    call,     \* per caller: the call it is in, or its last result
    ncalls,   \* number of calls begun
    hashed,   \* the files of the fingerprint comparison and their keys
    _options, \* CameraService: the options it was constructed with
    launcher, \* CameraService in the launcher process: its fields and position
    worker,   \* per worker: its capabilities, its CameraService and its command
    device    \* the files pushed to the Android device: path -> content

\* the state of the camera service
service == <<_options, launcher, worker, device>>

vars == <<fs, dirs, converter, call, ncalls, hashed, _options, launcher, worker, device>>

\* no camera service has been constructed
NoService ==
    /\ _options = [kind |-> "none"]
    /\ launcher = [kind |-> "none"]
    /\ worker = [kind |-> "none"]
    /\ device = [kind |-> "none"]

Exists(p) == p \in DOMAIN fs

\* the content of the file at an existing path
Data(p) == fs[p].data

\* what a reader of path p observes
Observed(p) == IF Exists(p) THEN Data(p) ELSE None

\* a file that no encoder of the model wrote
SourceFile(bytes) ==
    [data |-> [kind |-> "source", bytes |-> bytes], owner |-> "none",
     mixed |-> FALSE, by |-> None]

\* an open file descriptor is the path its file is linked at, or Detached
\* once that file has been unlinked or replaced
Detached == [kind |-> "detached"]

IdleCall ==
    [pc |-> "idle", op |-> "none", cfg |-> None, abs |-> None, format |-> "none",
     out |-> None, cmd |-> None, enc |-> "none", fd |-> None,
     exit |-> None, result |-> None, runs |-> 0, hit |-> FALSE,
     wrote |-> FALSE, prev |-> None, before |-> None]

Link(f, p, file) == [q \in (DOMAIN f) \cup {p} |-> IF q = p THEN file ELSE f[q]]

Unlink(f, p) == [q \in (DOMAIN f) \ {p} |-> f[q]]

\* the descriptors after rename(from, to): the file that was at to is gone
Renamed(cl, from, to) ==
    [d \in Calls |->
        IF cl[d].fd = to THEN [cl[d] EXCEPT !.fd = Detached]
        ELSE IF cl[d].fd = from THEN [cl[d] EXCEPT !.fd = to]
        ELSE cl[d]]

\* the descriptors after unlink(p)
Unlinked(cl, p) ==
    [d \in Calls |-> IF cl[d].fd = p THEN [cl[d] EXCEPT !.fd = Detached] ELSE cl[d]]

\* computeFileHash without hash.update(stats.size.toString())
computeFileHash_NoSize(filePath) ==
    LET bytes      == Data(filePath).bytes
        size       == Size(bytes)
        bufferSize == Min(HashPrefixBytes, size)
        buffer     == Take(bytes, bufferSize)
    IN  Sha256Hex(buffer)

\* computeFileHash(filePath): sha256(first min(65536, size) bytes ++ size.toString())
computeFileHash(filePath) ==
    LET bytes      == Data(filePath).bytes
        size       == Size(bytes)
        bufferSize == Min(HashPrefixBytes, size)
        buffer     == Take(bytes, bufferSize)
    IN  Sha256Hex(buffer \o SizeToString(size))

(* ---------------------------------------------------------------------- *)
(* Errors                                                                  *)
(* ---------------------------------------------------------------------- *)
\* new Error(`Source file not found: ${absolutePath}`)
SourceNotFound(absolutePath) ==
    [kind |-> "error", name |-> "Error",
     message |-> [text |-> "Source file not found: ", path |-> absolutePath]]

\* new UnsupportedFormatError(filePath, extension)
UnsupportedFormatError(filePath, extension) ==
    [kind |-> "error", name |-> "UnsupportedFormatError",
     filePath |-> filePath, extension |-> extension,
     message |-> [text |-> "Unsupported format", extension |-> extension,
                  file |-> filePath, supported |-> SUPPORTED_FORMATS]]

\* new ConversionError(sourceFile, ffmpegOutput)
ConversionError(sourceFile, ffmpegOutput) ==
    [kind |-> "error", name |-> "ConversionError",
     sourceFile |-> sourceFile, ffmpegOutput |-> ffmpegOutput,
     message |-> [text |-> "Failed to convert", file |-> sourceFile,
                  output |-> ffmpegOutput]]

\* the error a failing fs call throws (ENOENT)
SystemError(syscall, path) ==
    [kind |-> "error", name |-> "Error", code |-> "ENOENT",
     syscall |-> syscall, path |-> path]

Ok(path) == [kind |-> "ok", path |-> path]

(* ---------------------------------------------------------------------- *)
(* FormatConverter                                                         *)
(* ---------------------------------------------------------------------- *)
\* path.join(this.cacheDir, `${hash}.${this.outputFormat}`)
CachePath(cfg, hash) ==
    [abs |-> TRUE, dir |-> CacheDir, base |-> hash, ext |-> <<".">> \o cfg.outputFormat]

\* path.join(dirname(p), `${basename(p, extname(p))}.${this.outputFormat}`)
SiblingPath(cfg, absolutePath) ==
    [abs |-> TRUE, dir |-> absolutePath.dir, base |-> absolutePath.base,
     ext |-> <<".">> \o cfg.outputFormat]

\* the output path in the cache directory whatever cacheEnabled is
OutputPath_AlwaysCache(cfg, absolutePath, hash) == CachePath(cfg, hash)

\* const outputPath = this.cacheEnabled ? <cache path> : <sibling path>
OutputPath(cfg, absolutePath, hash) ==
    IF cfg.cacheEnabled THEN CachePath(cfg, hash) ELSE SiblingPath(cfg, absolutePath)

\* the encoder writing to the output path itself
TempPath_InPlace(outputPath) == outputPath

\* const tempPath = `${outputPath}.tmp`
TempPath(outputPath) == [outputPath EXCEPT !.ext = @ \o <<".","t","m","p">>]

\* getCachedPath looking for `${hash}${extname(source)}`
getCachedPath_SourceExt(cfg, sourcePath) ==
    IF ~cfg.cacheEnabled THEN None
    ELSE LET absolutePath == Resolve(sourcePath)
         IN  IF ~Exists(absolutePath) THEN None
             ELSE LET hash       == computeFileHash(absolutePath)
                      cachedFile == [CachePath(cfg, hash) EXCEPT !.ext = absolutePath.ext]
                  IN  IF Exists(cachedFile) THEN cachedFile ELSE None

\* getCachedPath without the cacheEnabled test
getCachedPath_IgnoreDisabled(cfg, sourcePath) ==
    LET absolutePath == Resolve(sourcePath)
    IN  IF ~Exists(absolutePath) THEN None
        ELSE LET hash       == computeFileHash(absolutePath)
                 cachedFile == CachePath(cfg, hash)
             IN  IF Exists(cachedFile) THEN cachedFile ELSE None

\* getCachedPath(sourcePath): the cached file, or None for null
getCachedPath(cfg, sourcePath) ==
    IF ~cfg.cacheEnabled THEN None
    ELSE LET absolutePath == Resolve(sourcePath)
         IN  IF ~Exists(absolutePath) THEN None
             ELSE LET hash       == computeFileHash(absolutePath)
                      cachedFile == CachePath(cfg, hash)
                  IN  IF Exists(cachedFile) THEN cachedFile ELSE None

\* the command line of convertVideo
convertVideo(inputPath, outputPath) ==
    [exe |-> "ffmpeg", i |-> inputPath, frames |-> 0, pix_fmt |-> "yuvj420p",
     f |-> "mjpeg", q |-> 2, y |-> TRUE, out |-> outputPath]

\* convertImage without -frames:v 1
convertImage_WholeInput(inputPath, outputPath) ==
    [exe |-> "ffmpeg", i |-> inputPath, frames |-> 0, pix_fmt |-> "yuvj420p",
     f |-> "mjpeg", q |-> 2, y |-> TRUE, out |-> outputPath]

\* the command line of convertImage (-frames:v 1)
convertImage(inputPath, outputPath) ==
    [exe |-> "ffmpeg", i |-> inputPath, frames |-> 1, pix_fmt |-> "yuvj420p",
     f |-> "mjpeg", q |-> 2, y |-> TRUE, out |-> outputPath]

\* what the encoder writes for a command: a function of the input's bytes and
\* of the flags, not of the file names
EncoderOutput(cmd) ==
    [input |-> Data(cmd.i).bytes, frames |-> cmd.frames, pix_fmt |-> cmd.pix_fmt,
     f |-> cmd.f, q |-> cmd.q]

\* the exit states of the encoder subprocess (child_process.exec)
ExecOk == [code |-> 0]

ExecFailed == [code |-> 1]

\* stderr of a failed run: text, empty, or not set on the error object
Stderrs ==
    { [defined |-> TRUE, text |-> "Invalid data found"],
      [defined |-> TRUE, text |-> ""],
      [defined |-> FALSE, text |-> ""] }

\* what a failing encoder run leaves as stderr, by the input it was given:
\* text for clip.mp4, nothing set for copy.MP4, the empty string otherwise
StderrOf(inputPath) ==
    IF inputPath.base = [name |-> "clip"]
    THEN CHOOSE e \in Stderrs : e.defined /\ e.text # ""
    ELSE IF inputPath.base = [name |-> "copy"]
    THEN CHOOSE e \in Stderrs : ~e.defined
    ELSE CHOOSE e \in Stderrs : e.defined /\ e.text = ""

\* the error child_process.exec rejects with
ExecError(stderr) == [code |-> 1, stderr |-> stderr, message |-> "Command failed"]

\* execFfmpeg's catch: (error.stderr ?? error.message)
FfmpegOutput(error) ==
    IF error.stderr.defined THEN error.stderr.text ELSE error.message

\* the most recent completed convert with the same converter options on the
\* same resolved source, if a caller still holds its result
PrevOf(cfg, absolutePath) ==
    LET same(d) == /\ call[d].pc = "done"
                   /\ call[d].op = "convert"
                   /\ call[d].cfg = cfg
                   /\ call[d].abs = absolutePath
    IN  IF \E d \in Calls : same(d)
        THEN LET d == CHOOSE d \in Calls : same(d)
             IN  [kind |-> "call", result |-> call[d].result, runs |-> call[d].runs]
        ELSE None

\* convert, cache miss: output path, temporary path, encoder started (await)
ConvertMiss(cfg, absolutePath, format, entered) ==
    LET hash       == computeFileHash(absolutePath)
        outputPath == OutputPath(cfg, absolutePath, hash)
        tempPath   == TempPath(outputPath)
        command    == IF format = "video"
                      THEN convertVideo(absolutePath, tempPath)
                      ELSE convertImage(absolutePath, tempPath)
    IN  [entered EXCEPT !.pc = "await", !.format = format, !.out = outputPath,
                        !.cmd = command, !.enc = "spawned", !.runs = 1,
                        !.before = Observed(outputPath)]

\* convert without the cache check
ConvertClassified_NoHit(cfg, sourcePath, absolutePath, entered) ==
    LET format  == detectFormat(absolutePath)
        done(r) == [entered EXCEPT !.pc = "done", !.format = format, !.result = r]
    IN  IF format = "mjpeg" \/ format = "y4m"
        THEN done(Ok(absolutePath))
        ELSE IF format = "unknown"
        THEN done(UnsupportedFormatError(absolutePath, absolutePath.ext))
        ELSE ConvertMiss(cfg, absolutePath, format, entered)

\* convert, from detectFormat on: native, unknown, cache hit or miss
ConvertClassified(cfg, sourcePath, absolutePath, entered) ==
    LET format  == detectFormat(absolutePath)
        done(r) == [entered EXCEPT !.pc = "done", !.format = format, !.result = r]
    IN  IF format = "mjpeg" \/ format = "y4m"
        THEN done(Ok(absolutePath))
        ELSE IF format = "unknown"
        THEN done(UnsupportedFormatError(absolutePath, absolutePath.ext))
        ELSE LET cachedPath == getCachedPath(cfg, sourcePath)
             IN  IF cachedPath # None
                 THEN [done(Ok(cachedPath)) EXCEPT !.hit = TRUE]
                 ELSE ConvertMiss(cfg, absolutePath, format, entered)

\* convert classifying the path before testing that the file exists
ConvertEntered_ClassifyFirst(cfg, sourcePath) ==
    LET absolutePath == Resolve(sourcePath)
        format  == detectFormat(absolutePath)
        entered == [IdleCall EXCEPT !.op = "convert", !.cfg = cfg,
                                    !.abs = absolutePath,
                                    !.prev = PrevOf(cfg, absolutePath)]
    IN  IF format = "mjpeg" \/ format = "y4m"
        THEN [entered EXCEPT !.pc = "done", !.format = format,
                             !.result = Ok(absolutePath)]
        ELSE IF format = "unknown"
        THEN [entered EXCEPT !.pc = "done", !.format = format,
                             !.result = UnsupportedFormatError(absolutePath, absolutePath.ext)]
        ELSE IF ~Exists(absolutePath)
        THEN [entered EXCEPT !.pc = "done", !.result = SourceNotFound(absolutePath)]
        ELSE ConvertClassified(cfg, sourcePath, absolutePath, entered)

\* convert(sourcePath) up to its return, its throw or its first await: the
\* caller's call record after it
ConvertEntered(cfg, sourcePath) ==
    LET absolutePath == Resolve(sourcePath)
        entered == [IdleCall EXCEPT !.op = "convert", !.cfg = cfg,
                                    !.abs = absolutePath,
                                    !.prev = PrevOf(cfg, absolutePath)]
    IN  IF ~Exists(absolutePath)
        THEN [entered EXCEPT !.pc = "done", !.result = SourceNotFound(absolutePath)]
        ELSE ConvertClassified(cfg, sourcePath, absolutePath, entered)

\* caller c calls convert(sourcePath)
ConvertBegin(c, sourcePath) ==
    /\ call[c].pc \in {"idle", "done"}
    /\ ncalls < MaxCalls
    /\ ncalls' = ncalls + 1
    /\ call' = [call EXCEPT ![c] = ConvertEntered(converter[c], sourcePath)]
    /\ UNCHANGED <<fs, dirs, converter, hashed, service>>

\* getCachedPath(sourcePath) called by caller c
GetCachedPath(c, sourcePath) ==
    /\ call[c].pc \in {"idle", "done"}
    /\ ncalls < MaxCalls
    /\ ncalls' = ncalls + 1
    /\ call' = [call EXCEPT ![c] =
                  [IdleCall EXCEPT !.pc = "done", !.op = "getCachedPath",
                                   !.cfg = converter[c],
                                   !.abs = Resolve(sourcePath),
                                   !.result = getCachedPath(converter[c], sourcePath)]]
    /\ UNCHANGED <<fs, dirs, converter, hashed, service>>

\* initialize creating the directory whatever cacheEnabled is
initialize_Unconditional(cfg, d) ==
    IF CacheDir \notin d THEN d \cup {VideoDirectory, CacheDir} ELSE d

\* initialize(): the directories after it.  mkdirSync(cacheDir, {recursive:
\* true}) when caching is enabled and the directory is absent
initialize(cfg, d) ==
    IF cfg.cacheEnabled /\ CacheDir \notin d
    THEN d \cup {VideoDirectory, CacheDir}
    ELSE d

\* caller c calls initialize()
Initialize(c) ==
    /\ dirs' = initialize(converter[c], dirs)
    /\ UNCHANGED <<fs, converter, call, ncalls, hashed, service>>

(* ---------------------------------------------------------------------- *)
(* The encoder subprocess (ffmpeg -y ... "<out>")                          *)
(* ---------------------------------------------------------------------- *)
\* the encoder opens its output: creates the file, or truncates the file
\* that is there (the same file, which other descriptors keep referring to);
\* another encoder still writing different data to that file spoils it
EncoderOpen(c) ==
    /\ call[c].pc = "await"
    /\ call[c].enc = "spawned"
    /\ call[c].cmd.out.dir \in dirs
    /\ LET target  == call[c].cmd.out
           media   == EncoderOutput(call[c].cmd)
           writers == { d \in Calls \ {c} : call[d].enc = "writing" /\ call[d].fd = target }
           opened  == [data  |-> [kind |-> "encoded", state |-> "partial", media |-> media],
                       owner |-> c,
                       mixed |-> \E d \in writers : EncoderOutput(call[d].cmd) # media,
                       by    |-> call[c].abs]
       IN  /\ fs' = Link(fs, target, opened)
           /\ call' = [call EXCEPT ![c].enc = "writing", ![c].fd = target,
                                    ![c].wrote = TRUE]
    /\ UNCHANGED <<dirs, converter, ncalls, hashed, service>>

\* the encoder writes its last byte and exits with status 0.  The file is
\* complete when the encoder that truncated it last has written all of it
\* and no encoder wrote other data into it meanwhile
EncoderFinish(c) ==
    /\ call[c].pc = "await"
    /\ call[c].enc = "writing"
    /\ LET p     == call[c].fd
           media == EncoderOutput(call[c].cmd)
       IN  fs' = IF p = Detached THEN fs
                 ELSE IF fs[p].owner = c
                 THEN [fs EXCEPT ![p].data.state =
                                     IF fs[p].mixed THEN "garbled" ELSE "complete",
                                 ![p].owner = "none"]
                 ELSE IF fs[p].data.media # media
                 THEN [fs EXCEPT ![p].data.state = "garbled", ![p].mixed = TRUE]
                 ELSE fs
    /\ call' = [call EXCEPT ![c].enc = "exited", ![c].fd = None, ![c].exit = ExecOk]
    /\ UNCHANGED <<dirs, converter, ncalls, hashed, service>>

\* the encoder exits with a non-zero status, before or after opening its
\* output; what it wrote stays
EncoderFail(c) ==
    /\ call[c].pc = "await"
    /\ call[c].enc \in {"spawned", "writing"}
    /\ LET p == call[c].fd
       IN  fs' = IF p # None /\ p # Detached /\ fs[p].owner = c
                 THEN [fs EXCEPT ![p].owner = "none"]
                 ELSE fs
    /\ call' = [call EXCEPT ![c].enc = "exited", ![c].fd = None, ![c].exit = ExecFailed]
    /\ UNCHANGED <<dirs, converter, ncalls, hashed, service>>

(* ---------------------------------------------------------------------- *)
(* convert after the await                                                 *)
(* ---------------------------------------------------------------------- *)
\* the promise of execFfmpeg never settling: convert stays at its await
ConvertResume_Pending(c) ==
    /\ call[c].pc = "await"
    /\ call[c].enc = "exited"
    /\ UNCHANGED <<fs, call, dirs, converter, ncalls, hashed, service>>

\* the await returns.  Status 0: renameSync(tempPath, outputPath) and return,
\* or the error of renameSync enters catch.  Otherwise execFfmpeg throws
\* ConversionError and catch calls existsSync(tempPath)
ConvertResume(c) ==
    /\ call[c].pc = "await"
    /\ call[c].enc = "exited"
    /\ LET outputPath == call[c].out
           tempPath   == call[c].cmd.out
       IN  IF call[c].exit.code = 0
           THEN IF Exists(tempPath)
                THEN /\ fs' = Link(Unlink(fs, tempPath), outputPath, fs[tempPath])
                     /\ call' = [Renamed(call, tempPath, outputPath) EXCEPT
                                    ![c].pc = "done", ![c].enc = "none",
                                    ![c].result = Ok(outputPath)]
                ELSE /\ call' = [call EXCEPT ![c].pc = "catch", ![c].enc = "none",
                                             ![c].result = SystemError("rename", tempPath)]
                     /\ fs' = fs
           ELSE /\ call' = [call EXCEPT
                               ![c].pc = IF Exists(tempPath) THEN "unlink" ELSE "done",
                               ![c].enc = "none",
                               ![c].result = ConversionError(call[c].abs,
                                                             FfmpegOutput(ExecError(StderrOf(call[c].abs))))]
                /\ fs' = fs
    /\ UNCHANGED <<dirs, converter, ncalls, hashed, service>>

\* catch after a failed renameSync: if (fs.existsSync(tempPath)) ... throw error
CatchExists(c) ==
    /\ call[c].pc = "catch"
    /\ call' = [call EXCEPT ![c].pc = IF Exists(call[c].cmd.out) THEN "unlink" ELSE "done"]
    /\ UNCHANGED <<fs, dirs, converter, ncalls, hashed, service>>

\* catch that rethrows without unlinkSync
CatchUnlink_Skip(c) ==
    /\ call[c].pc = "unlink"
    /\ call' = [call EXCEPT ![c].pc = "done"]
    /\ UNCHANGED <<fs, dirs, converter, ncalls, hashed, service>>

\* catch: fs.unlinkSync(tempPath); throw error.  unlinkSync throws instead
\* when the file has gone since existsSync
CatchUnlink(c) ==
    /\ call[c].pc = "unlink"
    /\ LET tempPath == call[c].cmd.out
       IN  IF Exists(tempPath)
           THEN /\ fs' = Unlink(fs, tempPath)
                /\ call' = [Unlinked(call, tempPath) EXCEPT ![c].pc = "done"]
           ELSE /\ call' = [call EXCEPT ![c].pc = "done",
                                        ![c].result = SystemError("unlink", tempPath)]
                /\ fs' = fs
    /\ UNCHANGED <<dirs, converter, ncalls, hashed, service>>

(* ---------------------------------------------------------------------- *)
(* Specification: overlapping calls of two converters on one directory     *)
(* ---------------------------------------------------------------------- *)
NoHash == [kind |-> "none"]

\* the callers are interchangeable; the pairs of options are taken up to
\* exchanging them
CfgRank(cfg) ==
    (IF cfg.cacheEnabled THEN 0 ELSE 2) + (IF cfg.outputFormat = OutMjpeg THEN 0 ELSE 1)

InitFiles ==
    /\ fs = [p \in { InitialFiles[i][1] : i \in 1..Len(InitialFiles) } |->
                SourceFile((CHOOSE e \in { InitialFiles[i] : i \in 1..Len(InitialFiles) } :
                                e[1] = p)[2])]
    /\ dirs = {MediaDir}
    /\ converter \in [Calls -> Configs]
    /\ CfgRank(converter["p"]) <= CfgRank(converter["q"])
    /\ call = [c \in Calls |-> IdleCall]
    /\ ncalls = 0

Init ==
    /\ InitFiles
    /\ hashed = NoHash
    /\ NoService

Next ==
    \/ \E c \in Calls, sourcePath \in SourceArgs : ConvertBegin(c, sourcePath)
    \/ \E c \in Calls, sourcePath \in LookupArgs : GetCachedPath(c, sourcePath)
    \/ \E c \in Calls : Initialize(c)
    \/ \E c \in Calls : EncoderOpen(c)
    \/ \E c \in Calls : EncoderFinish(c)
    \/ \E c \in Calls : EncoderFail(c)
    \/ \E c \in Calls : ConvertResume(c)
    \/ \E c \in Calls : CatchExists(c)
    \/ \E c \in Calls : CatchUnlink(c)

Spec == Init /\ [][Next]_vars

(* ---------------------------------------------------------------------- *)
(* Specification: calls that do not overlap                                *)
(* ---------------------------------------------------------------------- *)
\* no call is in progress.  (renameSync fails only when another call has moved
\* or removed the temporary file, so CatchExists has no step here.)
Quiet == \A d \in Calls : call[d].pc \in {"idle", "done"}

NextSeq ==
    \/ \E c \in Calls, sourcePath \in SourceArgs : Quiet /\ ConvertBegin(c, sourcePath)
    \/ \E c \in Calls, sourcePath \in LookupArgs : Quiet /\ GetCachedPath(c, sourcePath)
    \/ \E c \in Calls : Initialize(c)
    \/ \E c \in Calls : EncoderOpen(c)
    \/ \E c \in Calls : EncoderFinish(c)
    \/ \E c \in Calls : EncoderFail(c)
    \/ \E c \in Calls : ConvertResume(c)
    \/ \E c \in Calls : CatchUnlink(c)

SpecSeq == Init /\ [][NextSeq]_vars

(* ---------------------------------------------------------------------- *)
(* Specification: the fingerprints of two files                            *)
(* ---------------------------------------------------------------------- *)
\* file contents around the 64 KiB limit and around the decimal length suffix
HashContents ==
    { <<>>,
      << [b |-> "0", n |-> 1] >>,
      << [b |-> "1", n |-> 1] >>,
      << [b |-> "1", n |-> 2] >>,
      << [b |-> "a", n |-> 1] >>,
      << [b |-> "a", n |-> 1], [b |-> "1", n |-> 1] >>,
      << [b |-> "a", n |-> 65535] >>,
      << [b |-> "a", n |-> 65535], [b |-> "b", n |-> 1] >>,
      << [b |-> "a", n |-> 65536] >>,
      << [b |-> "a", n |-> 65537] >>,
      << [b |-> "a", n |-> 65536], [b |-> "b", n |-> 1] >>,
      << [b |-> "a", n |-> 65536], [b |-> "c", n |-> 1] >>,
      << [b |-> "a", n |-> 65536], [b |-> "b", n |-> 2] >> }

FileA == AbsFile("a", ExtMp4)
FileB == AbsFile("b", ExtMp4)

InitHash ==
    /\ \E x \in HashContents, y \in HashContents :
          fs = [p \in {FileA, FileB} |-> SourceFile(IF p = FileA THEN x ELSE y)]
    /\ dirs = {MediaDir, VideoDirectory}
    /\ converter = [c \in Calls |-> [cacheEnabled |-> TRUE, outputFormat |-> OutMjpeg]]
    /\ call = [c \in Calls |-> IdleCall]
    /\ ncalls = 0
    /\ hashed = [kind |-> "keys", a |-> None, b |-> None]
    /\ NoService

\* computeFileHash on the first file
HashA ==
    /\ hashed.a = None
    /\ hashed' = [hashed EXCEPT !.a = computeFileHash(FileA)]
    /\ UNCHANGED <<fs, dirs, converter, call, ncalls, service>>

\* computeFileHash on the second file
HashB ==
    /\ hashed.b = None
    /\ hashed' = [hashed EXCEPT !.b = computeFileHash(FileB)]
    /\ UNCHANGED <<fs, dirs, converter, call, ncalls, service>>

NextHash == HashA \/ HashB

SpecHash == InitHash /\ [][NextHash]_vars

(* ---------------------------------------------------------------------- *)
(* Specification: the classifier on its own                                *)
(* ---------------------------------------------------------------------- *)
\* extensions in several letter cases, unlisted extensions, and none
ClassifyExts ==
    { ExtMjpeg, ExtY4m, ExtMp4, ExtWebm, ExtAvi, ExtMov, ExtGif,
      ExtPng, ExtJpg, ExtJpeg, ExtBmp, ExtTxt,
      <<".","M","J","P","E","G">>, <<".","Y","4","M">>, <<".","M","p","4">>,
      <<".","W","e","b","M">>, <<".","G","I","F">>, <<".","P","n","G">>,
      <<".","J","P","e","g">>, <<".","B","M","P">>, <<".","T","X","T">>,
      <<".","m","k","v">>, <<".","m","j","p","g">>, <<".","m","p">>,
      <<".","m","p","4","4">>, <<".">>, <<>> }

\* the filePath arguments of detectFormat and requiresConversion
ClassifyArgs ==
    { [abs |-> TRUE, dir |-> <<"path", "to">>, base |-> [name |-> "video"], ext |-> e] :
        e \in ClassifyExts }
    \cup
    { [abs |-> FALSE, dir |-> <<"mp4">>, base |-> [name |-> "png"], ext |-> e] :
        e \in {<<>>, ExtTxt, ExtMp4} }

InitClassify ==
    /\ fs = [p \in {} |-> SourceFile(<<>>)]
    /\ dirs = {MediaDir}
    /\ converter = [c \in Calls |-> [cacheEnabled |-> TRUE, outputFormat |-> OutMjpeg]]
    /\ call = [c \in Calls |-> IdleCall]
    /\ ncalls = 0
    /\ hashed = NoHash
    /\ NoService

\* caller c calls detectFormat(filePath)
DetectFormat(c, filePath) ==
    /\ call' = [call EXCEPT ![c] =
                  [IdleCall EXCEPT !.pc = "done", !.op = "detectFormat",
                                   !.abs = filePath,
                                   !.result = [kind |-> "format",
                                               value |-> detectFormat(filePath)]]]
    /\ UNCHANGED <<fs, dirs, converter, ncalls, hashed, service>>

\* caller c calls requiresConversion(filePath)
RequiresConversion(c, filePath) ==
    /\ call' = [call EXCEPT ![c] =
                  [IdleCall EXCEPT !.pc = "done", !.op = "requiresConversion",
                                   !.abs = filePath,
                                   !.result = [kind |-> "boolean",
                                               value |-> requiresConversion(filePath)]]]
    /\ UNCHANGED <<fs, dirs, converter, ncalls, hashed, service>>

NextClassify ==
    \/ \E c \in Calls, filePath \in ClassifyArgs : DetectFormat(c, filePath)
    \/ \E c \in Calls, filePath \in ClassifyArgs : RequiresConversion(c, filePath)

SpecClassify == InitClassify /\ [][NextClassify]_vars

(* ---------------------------------------------------------------------- *)
(* The encoder availability probe (ffmpeg-checker)                         *)
(* ---------------------------------------------------------------------- *)
\* a string value, where null is None
Str(text) == [str |-> text]

\* text as the sequence of its words, which single spaces separate
NoText == <<>>

\* what execAsync(`"${ffmpegPath}" -version`) can do: resolve with stdout and
\* stderr, reject with an Error, or reject with a value that is no Error
ExecOutcomes ==
    { [ok |-> TRUE, stdout |-> <<"ffmpeg", "version", "6.0", "Copyright">>, stderr |-> NoText,
       isError |-> FALSE, thrown |-> ""],
      [ok |-> TRUE, stdout |-> NoText, stderr |-> <<"ffmpeg", "version", "5.1.2">>,
       isError |-> FALSE, thrown |-> ""],
      [ok |-> TRUE, stdout |-> <<"some", "unexpected", "output">>,
       stderr |-> <<"ffmpeg", "version", "4.4">>, isError |-> FALSE, thrown |-> ""],
      [ok |-> TRUE, stdout |-> <<"ffmpeg", "version">>, stderr |-> NoText,
       isError |-> FALSE, thrown |-> ""],
      [ok |-> TRUE, stdout |-> NoText, stderr |-> NoText, isError |-> FALSE, thrown |-> ""],
      [ok |-> FALSE, stdout |-> NoText, stderr |-> NoText,
       isError |-> TRUE, thrown |-> "Command not found: ffmpeg"],
      [ok |-> FALSE, stdout |-> <<"ffmpeg", "version", "6.0">>, stderr |-> NoText,
       isError |-> TRUE, thrown |-> "Command failed"],
      [ok |-> FALSE, stdout |-> NoText, stderr |-> NoText,
       isError |-> FALSE, thrown |-> "ENOENT"] }

\* the customPath arguments: undefined, or a path
CustomPaths == { None, Str("/custom/path/ffmpeg"), Str("") }

\* output.match(/ffmpeg version (\S+)/): the first capture, or None
VersionMatch(output) ==
    LET at(i) == /\ output[i] = "ffmpeg"
                 /\ output[i + 1] = "version"
        hits  == { i \in 1..(Len(output) - 2) : at(i) }
    IN  IF hits = {} THEN None
        ELSE Str(output[(CHOOSE i \in hits : \A j \in hits : i <= j) + 2])

\* checkFfmpegAvailability that needs a parsed version to report available
checkFfmpegAvailability_NeedsVersion(customPath, outcome) ==
    LET ffmpegPath == IF customPath = None THEN Str("ffmpeg") ELSE customPath
    IN  IF outcome.ok
        THEN LET output  == IF outcome.stdout # NoText THEN outcome.stdout ELSE outcome.stderr
                 version == VersionMatch(output)
             IN  [available |-> version # None, path |-> ffmpegPath, version |-> version,
                  error |-> None]
        ELSE [available |-> FALSE, path |-> None, version |-> None,
              error |-> Str(outcome.thrown)]

\* checkFfmpegAvailability(customPath), given what the version command did
checkFfmpegAvailability(customPath, outcome) ==
    LET ffmpegPath == IF customPath = None THEN Str("ffmpeg") ELSE customPath
    IN  IF outcome.ok
        THEN LET output  == IF outcome.stdout # NoText THEN outcome.stdout ELSE outcome.stderr
                 version == VersionMatch(output)
             IN  [available |-> TRUE, path |-> ffmpegPath, version |-> version,
                  error |-> None]
        ELSE \* error instanceof Error ? error.message : String(error)
             [available |-> FALSE, path |-> None, version |-> None,
              error |-> Str(outcome.thrown)]

\* the values of process.platform
Platforms == { "darwin", "linux", "win32", "freebsd", "aix" }

\* getInstallationInstructions with the generic text on every platform
getInstallationInstructions_Generic(platform) ==
    [head |-> "FFmpeg is required but not found.", install |-> {},
     download |-> "https://ffmpeg.org/download.html", generic |-> TRUE]

\* getInstallationInstructions(): the text for process.platform, by its parts
getInstallationInstructions(platform) ==
    IF platform = "darwin"
    THEN [head |-> "FFmpeg is required but not found.",
          install |-> {"brew install ffmpeg"},
          download |-> "https://ffmpeg.org/download.html", generic |-> FALSE]
    ELSE IF platform = "linux"
    THEN [head |-> "FFmpeg is required but not found.",
          install |-> {"sudo apt-get install ffmpeg", "sudo dnf install ffmpeg",
                       "sudo pacman -S ffmpeg"},
          download |-> "https://ffmpeg.org/download.html", generic |-> FALSE]
    ELSE IF platform = "win32"
    THEN [head |-> "FFmpeg is required but not found.",
          install |-> {"winget install FFmpeg", "choco install ffmpeg"},
          download |-> "https://ffmpeg.org/download.html", generic |-> FALSE]
    ELSE [head |-> "FFmpeg is required but not found.", install |-> {},
          download |-> "https://ffmpeg.org/download.html", generic |-> TRUE]

\* caller c calls checkFfmpegAvailability(customPath); the version command
\* does outcome
CheckFfmpegAvailability(c, customPath, outcome) ==
    /\ call' = [call EXCEPT ![c] =
                  [IdleCall EXCEPT !.pc = "done", !.op = "checkFfmpegAvailability",
                                   !.abs = customPath,
                                   !.cmd = [exe |-> IF customPath = None THEN Str("ffmpeg")
                                                    ELSE customPath,
                                            version |-> TRUE],
                                   !.exit = outcome,
                                   !.result = checkFfmpegAvailability(customPath, outcome)]]
    /\ UNCHANGED <<fs, dirs, converter, ncalls, hashed, service>>

\* caller c calls getInstallationInstructions() on a host of that platform
GetInstallationInstructions(c, platform) ==
    /\ call' = [call EXCEPT ![c] =
                  [IdleCall EXCEPT !.pc = "done", !.op = "getInstallationInstructions",
                                   !.abs = Str(platform),
                                   !.result = getInstallationInstructions(platform)]]
    /\ UNCHANGED <<fs, dirs, converter, ncalls, hashed, service>>

NextProbe ==
    \/ \E c \in Calls, customPath \in CustomPaths, outcome \in ExecOutcomes :
          CheckFfmpegAvailability(c, customPath, outcome)
    \/ \E c \in Calls, platform \in Platforms : GetInstallationInstructions(c, platform)

SpecProbe == InitClassify /\ [][NextProbe]_vars

(* ---------------------------------------------------------------------- *)
(* CameraService (camera.service.ts): capabilities and flags               *)
(* ---------------------------------------------------------------------- *)
\* String.prototype.includes on sequences of characters
Includes(text, part) ==
    \E i \in 0..(Len(text) - Len(part)) : SubSeq(text, i + 1, i + Len(part)) = part

\* a name as its characters (None stands for undefined)
Text(chars) == [text |-> chars]

BrowserChrome       == Text(<<"c","h","r","o","m","e">>)
BrowserGoogleChrome == Text(<<"G","o","o","g","l","e"," ","C","h","r","o","m","e">>)
BrowserChromium     == Text(<<"c","h","r","o","m","i","u","m">>)
BrowserFirefox      == Text(<<"f","i","r","e","f","o","x">>)
PlatformAndroid     == Text(<<"A","n","d","r","o","i","d">>)
PlatformDesktop     == Text(<<"d","e","s","k","t","o","p">>)

\* a list of arguments (None stands for a missing list)
List(items) == [list |-> items]

\* a command-line argument of the browser: its name and, after '=', its value
Arg(name, value) == [name |-> name, value |-> value]

FlagFakeDevice == "--use-fake-device-for-media-stream"
FlagFakeUi     == "--use-fake-ui-for-media-stream"
FlagCapture    == "--use-file-for-fake-video-capture"

ExistingArgs == List(<< Arg("--existing-flag", None) >>)

\* args in which the user has set a capture file of their own
OwnCaptureArgs == List(<< Arg(FlagCapture, AbsFile("photo", ExtMjpeg)) >>)

\* WebdriverIO.Capabilities: browserName, platformName and
\* 'goog:chromeOptions' (None for undefined; args None for a missing list)
Capabilities(browserName, platformName, chromeOptions) ==
    [browserName |-> browserName, platformName |-> platformName,
     chromeOptions |-> chromeOptions]

\* the capabilities a worker is started with, by worker
WorkerCapabilities(w) ==
    IF w = "p"
    THEN { Capabilities(BrowserGoogleChrome, PlatformDesktop, [args |-> ExistingArgs]),
           Capabilities(BrowserChromium, None, None),
           Capabilities(BrowserFirefox, None, None) }
    ELSE { Capabilities(BrowserChrome, PlatformAndroid, None),
           Capabilities(BrowserChrome, None, [args |-> None]),
           Capabilities(BrowserChrome, None, [args |-> OwnCaptureArgs]) }

\* the test of onWorkerStart taking every named browser
IsChromium_AnyBrowser(capabilities) ==
    capabilities.browserName # None

\* capabilities.browserName?.toLowerCase().includes('chrom')
IsChromium(capabilities) ==
    /\ capabilities.browserName # None
    /\ Includes(ToLowerCase(capabilities.browserName.text), <<"c","h","r","o","m">>)

\* this.browser?.capabilities.browserName?.toLowerCase().includes('chrome')
IsChrome(capabilities) ==
    /\ capabilities.browserName # None
    /\ Includes(ToLowerCase(capabilities.browserName.text), <<"c","h","r","o","m","e">>)

\* the platform test without toLowerCase()
IsAndroid_CaseSensitive(capabilities) ==
    /\ capabilities.platformName # None
    /\ Includes(capabilities.platformName.text, <<"a","n","d","r","o","i","d">>)

\* capabilities.platformName?.toLowerCase().includes('android')
IsAndroid(capabilities) ==
    /\ capabilities.platformName # None
    /\ Includes(ToLowerCase(capabilities.platformName.text), <<"a","n","d","r","o","i","d">>)

\* private androidVideoDirectory
AndroidVideoDirectory ==
    <<"storage", "emulated", "0", "Android", "data", "com.android.chrome", "files", "Download">>

\* the worker ids (cid) of the workers
Cid(w) == IF w = "p" THEN "0-0" ELSE "0-1"

\* const outputExt = this._options.outputFormat === 'y4m' ? '.y4m' : '.mjpeg'
OutputExt(opts) == IF opts.outputFormat = OutY4m THEN ExtY4m ELSE ExtMjpeg

\* path.resolve(process.cwd(), videoDirectory, `${cid}${outputExt}`), or the
\* file of that name in the Android download directory
SessionVideoFilePath(opts, cid, capabilities) ==
    [abs  |-> TRUE,
     dir  |-> IF IsAndroid(capabilities) THEN AndroidVideoDirectory ELSE VideoDirectory,
     base |-> [name |-> cid],
     ext  |-> OutputExt(opts)]

\* the three camera arguments of onWorkerStart
CameraArgs(sessionVideoFilePath) ==
    << Arg(FlagFakeDevice, None), Arg(FlagFakeUi, None),
       Arg(FlagCapture, sessionVideoFilePath) >>

\* capabilities['goog:chromeOptions'] ??= {}; .args ??= []; .args.push(...args)
PushArgs(capabilities, args) ==
    LET chromeOptions == IF capabilities.chromeOptions = None
                         THEN [args |-> None]
                         ELSE capabilities.chromeOptions
        present       == IF chromeOptions.args = None THEN <<>> ELSE chromeOptions.args.list
    IN  [capabilities EXCEPT !.chromeOptions = [args |-> List(present \o args)]]

\* onWorkerStart prepending the camera arguments
WorkerStartCapabilities_Prepend(opts, cid, capabilities) ==
    IF IsChromium(capabilities)
    THEN LET chromeOptions == IF capabilities.chromeOptions = None
                              THEN [args |-> None]
                              ELSE capabilities.chromeOptions
             present       == IF chromeOptions.args = None THEN <<>> ELSE chromeOptions.args.list
         IN  [capabilities EXCEPT !.chromeOptions =
                 [args |-> List(CameraArgs(SessionVideoFilePath(opts, cid, capabilities)) \o present)]]
    ELSE capabilities

\* onWorkerStart: the capabilities object after it
WorkerStartCapabilities(opts, cid, capabilities) ==
    IF IsChromium(capabilities)
    THEN PushArgs(capabilities, CameraArgs(SessionVideoFilePath(opts, cid, capabilities)))
    ELSE capabilities

\* (requestedCapabilities['goog:chromeOptions']?.args)
\*    ?.find((arg) => arg.includes('--use-file-for-fake-video-capture'))
\*    ?.match(/--use-file-for-fake-video-capture=(\S+)/): the capture, or None.
\* (No path of the model contains white space, so (\S+) takes all of it.)
CameraSource(requestedCapabilities) ==
    LET chromeOptions == requestedCapabilities.chromeOptions
        args == IF chromeOptions = None
                THEN <<>>
                ELSE IF chromeOptions.args = None THEN <<>> ELSE chromeOptions.args.list
        hits == { i \in 1..Len(args) : args[i].name = FlagCapture }
    IN  IF hits = {} THEN None
        ELSE args[CHOOSE i \in hits : \A j \in hits : i <= j].value

(* ---------------------------------------------------------------------- *)
(* CameraService: the hooks and the changeCameraSource command             *)
(* ---------------------------------------------------------------------- *)
\* the defaultCameraFeed options: native, convertible video, unrecognized
DefaultFeeds ==
    { RelFile("feed", <<".","Y","4","M">>), AbsFile("clip", ExtMp4), AbsFile("notes", ExtTxt) }

\* CameraServiceOptions (videoDirectory is VideoDirectory, ffmpegPath is
\* unset): cached mjpeg output, or uncached y4m output
ServiceOptions ==
    { o \in [defaultCameraFeed : DefaultFeeds, cacheEnabled : BOOLEAN,
             outputFormat : {OutMjpeg, OutY4m}, imageFrameRate : {30},
             imageDuration : {5}] :
        o.cacheEnabled <=> (o.outputFormat = OutMjpeg) }

\* the options object of new FormatConverter({...}) in onPrepare and before
ConverterOptions(opts) ==
    [cacheEnabled |-> opts.cacheEnabled, outputFormat |-> opts.outputFormat,
     imageFrameRate |-> opts.imageFrameRate, imageDuration |-> opts.imageDuration]

\* the videoPath arguments of changeCameraSource, by worker
ChangeArgs(w) ==
    IF w = "p"
    THEN { RelFile("clip", ExtMp4), RelFile("feed", <<".","Y","4","M">>),
           AbsFile("notes", ExtTxt), AbsFile("gone", ExtMp4) }
    ELSE { AbsFile("clip", ExtMp4), AbsFile("photo", ExtMjpeg) }

\* new FfmpegNotFoundError(`FFmpeg is required to convert ${feed} but was not
\* found.\n\n${instructions}`)
FfmpegNotFoundError(feed, instructions) ==
    [kind |-> "error", name |-> "FfmpegNotFoundError",
     message |-> [text |-> "FFmpeg is required to convert", feed |-> feed,
                  instructions |-> instructions]]

\* new Error(`New source camera feed ${path} does not exist`)
NewSourceMissing(path) ==
    [kind |-> "error", name |-> "Error",
     message |-> [text |-> "New source camera feed does not exist", path |-> path]]

\* new Error(`Default camera feed ${path} does not exist`)
DefaultFeedMissing(path) ==
    [kind |-> "error", name |-> "Error",
     message |-> [text |-> "Default camera feed does not exist", path |-> path]]

\* the command returned without throwing; how says what it did
Returned(how) == [kind |-> "ok", how |-> how]

\* a file holding the data that was written to it in one piece
FileOf(data) == [data |-> data, owner |-> "none", mixed |-> FALSE, by |-> None]

\* Buffer.from(bytes).toString('base64')
Base64(data) == [base64 |-> data]

\* the device's files after pushFile(path, content)
PushFile(files, path, content) ==
    [q \in (DOMAIN files) \cup {path} |-> IF q = path THEN content ELSE files[q]]

\* the constructor taking every default feed as one to convert
Constructed_AlwaysConverts(opts) ==
    [pc |-> "constructed", needsConversion |-> TRUE,
     converter |-> None, initialized |-> FALSE, convertedDefaultFeed |-> None,
     probe |-> None, platform |-> None, error |-> None]

\* the service instance of the launcher after the constructor (probe is the
\* result of the probe once it ran, platform the process.platform read for
\* the installation instructions, initialized whether initialize() of
\* this.converter has completed)
Constructed(opts) ==
    [pc |-> "constructed", needsConversion |-> requiresConversion(opts.defaultCameraFeed),
     converter |-> None, initialized |-> FALSE, convertedDefaultFeed |-> None,
     probe |-> None, platform |-> None, error |-> None]

\* a worker that has not been started.  initialized says whether
\* initialize() of the worker's converter has completed, requested is the
\* capabilities object
\* as onWorkerStart received it, capabilities the object as it left it;
\* videoPath, source and result are the argument of the last command, the
\* file it delivered and how it ended
IdleWorker ==
    [pc |-> "none", initialized |-> FALSE, requested |-> None, capabilities |-> None,
     videoPath |-> None, source |-> None, result |-> None]

InitService ==
    /\ _options \in ServiceOptions
    /\ fs = [p \in { InitialFiles[i][1] : i \in 1..Len(InitialFiles) } |->
                SourceFile((CHOOSE e \in { InitialFiles[i] : i \in 1..Len(InitialFiles) } :
                                e[1] = p)[2])]
    /\ dirs = {MediaDir}
    /\ converter = [c \in Calls |-> FormatConverter(ConverterOptions(_options))]
    /\ call = [c \in Calls |-> IdleCall]
    /\ ncalls = 0
    /\ hashed = NoHash
    /\ launcher = Constructed(_options)
    /\ worker = [w \in Calls |-> IdleWorker]
    /\ device = [q \in {} |-> None]

\* onPrepare up to its return, its throw or the await of convert.  The
\* version command of the probe does outcome on a host of that platform.
\* (The convert of onPrepare uses the call of "p", whose worker starts after
\* onPrepare has returned.)
OnPrepare(outcome, platform) ==
    /\ launcher.pc = "constructed"
    /\ LET made   == dirs \cup {VideoDirectory}
           status == checkFfmpegAvailability(None, outcome)
           cfg    == FormatConverter(ConverterOptions(_options))
       IN  IF launcher.needsConversion /\ ~status.available
           THEN /\ launcher' = [launcher EXCEPT
                                  !.pc = "failed", !.probe = status,
                                  !.platform = Str(platform),
                                  !.error = FfmpegNotFoundError(
                                                _options.defaultCameraFeed,
                                                getInstallationInstructions(platform))]
                /\ dirs' = made
                /\ call' = call
           ELSE LET entered == ConvertEntered(cfg, _options.defaultCameraFeed)
                    probed  == [launcher EXCEPT
                                  !.converter = cfg, !.initialized = TRUE,
                                  !.probe = IF launcher.needsConversion THEN status ELSE None]
                IN  /\ dirs' = initialize(cfg, made)
                    /\ IF ~launcher.needsConversion
                       THEN /\ launcher' = [probed EXCEPT !.pc = "prepared"]
                            /\ call' = call
                       ELSE IF entered.pc # "done"
                       THEN /\ launcher' = [probed EXCEPT !.pc = "converting"]
                            /\ call' = [call EXCEPT !["p"] = entered]
                       ELSE /\ launcher' =
                                 IF entered.result.kind = "error"
                                 THEN [probed EXCEPT !.pc = "failed",
                                                     !.error = entered.result]
                                 ELSE [probed EXCEPT !.pc = "prepared",
                                          !.convertedDefaultFeed = entered.result.path]
                            /\ call' = call
    /\ UNCHANGED <<fs, converter, ncalls, hashed, _options, worker, device>>

\* onPrepare after the await of convert
OnPrepareResume ==
    /\ launcher.pc = "converting"
    /\ call["p"].pc = "done"
    /\ launcher' = IF call["p"].result.kind = "error"
                   THEN [launcher EXCEPT !.pc = "failed", !.error = call["p"].result]
                   ELSE [launcher EXCEPT !.pc = "prepared",
                                         !.convertedDefaultFeed = call["p"].result.path]
    /\ call' = [call EXCEPT !["p"] = IdleCall]
    /\ UNCHANGED <<fs, dirs, converter, ncalls, hashed, _options, worker, device>>

\* onPrepare has thrown an error that is no SevereServiceError (the class the
\* constructor throws, camera.service.ts:28; FfmpegNotFoundError and
\* ConversionError extend Error): the runner logs the error of the hook and
\* goes on to start the workers.  The instance keeps the fields onPrepare had
\* assigned before the throw.
RunnerContinues ==
    /\ launcher.pc = "failed"
    /\ launcher' = [launcher EXCEPT !.pc = "continued", !.probe = None,
                                    !.platform = None, !.error = None]
    /\ UNCHANGED <<fs, dirs, converter, call, ncalls, hashed, _options, worker, device>>

\* onWorkerStart(cid, capabilities) for worker w (in the launcher process)
OnWorkerStart(w, capabilities) ==
    /\ launcher.pc \in {"prepared", "continued"}
    /\ worker[w].pc = "none"
    /\ IF IsChromium(capabilities)
       THEN LET feedPath == IF launcher.convertedDefaultFeed # None
                            THEN launcher.convertedDefaultFeed
                            ELSE _options.defaultCameraFeed
                absolute == Resolve(feedPath)
                sessionVideoFilePath == SessionVideoFilePath(_options, Cid(w), capabilities)
            IN  IF ~Exists(absolute)
                THEN /\ worker' = [worker EXCEPT
                                     ![w].pc = "failed", ![w].requested = capabilities,
                                     ![w].capabilities = capabilities,
                                     ![w].result = SystemError("open", absolute)]
                     /\ fs' = fs
                ELSE /\ fs' = IF IsAndroid(capabilities) THEN fs
                              ELSE Link(fs, sessionVideoFilePath, FileOf(Data(absolute)))
                     /\ worker' = [worker EXCEPT
                                     ![w].pc = "started", ![w].source = absolute,
                                     ![w].requested = capabilities,
                                     ![w].capabilities =
                                         WorkerStartCapabilities(_options, Cid(w), capabilities)]
       ELSE /\ worker' = [worker EXCEPT
                            ![w].pc = "started", ![w].requested = capabilities,
                            ![w].capabilities =
                                WorkerStartCapabilities(_options, Cid(w), capabilities)]
            /\ fs' = fs
    /\ UNCHANGED <<dirs, converter, call, ncalls, hashed, _options, launcher, device>>

\* before() registering the command without initialize()
Before_NoInitialize(w) ==
    /\ worker[w].pc = "started"
    /\ dirs' = dirs
    /\ worker' = [worker EXCEPT ![w].pc = "ready"]
    /\ UNCHANGED <<fs, converter, call, ncalls, hashed, _options, launcher, device>>

\* before(config, capabilities, browser) in the process of worker w: a
\* converter of its own, initialize(), and the command registered
Before(w) ==
    /\ worker[w].pc = "started"
    /\ dirs' = initialize(converter[w], dirs)
    /\ worker' = [worker EXCEPT ![w].pc = "ready", ![w].initialized = TRUE]
    /\ UNCHANGED <<fs, converter, call, ncalls, hashed, _options, launcher, device>>

\* changeCameraSource returning without delivering the feed
Delivery_NoWrite(w, sourceCameraFeedPath) ==
    [fs |-> fs, device |-> device, result |-> Returned("written")]

\* changeCameraSource from `if (!isChrome)` on, given what convert returned
\* or the resolved path of a native source: the files, the device's files and
\* the outcome of the command.  (browser.capabilities has the browserName and
\* platformName of the requested capabilities.)
Delivery(w, sourceCameraFeedPath) ==
    LET capabilities          == worker[w].capabilities
        defaultCameraFeedPath == CameraSource(capabilities)
        same(result)          == [fs |-> fs, device |-> device, result |-> result]
    IN  IF ~IsChrome(capabilities)
        THEN same(Returned("not chrome"))
        ELSE IF ~Exists(sourceCameraFeedPath)
        THEN same(SystemError("open", sourceCameraFeedPath))
        ELSE LET mockedVideo == Data(sourceCameraFeedPath)
             IN  IF IsAndroid(capabilities)
                 THEN [fs     |-> fs,
                       device |-> PushFile(device, defaultCameraFeedPath, Base64(mockedVideo)),
                       result |-> Returned("pushed")]
                 ELSE IF ~Exists(defaultCameraFeedPath)
                 THEN same(DefaultFeedMissing(defaultCameraFeedPath))
                 ELSE [fs     |-> Link(fs, defaultCameraFeedPath, FileOf(mockedVideo)),
                       device |-> device,
                       result |-> Returned("written")]

\* the command ends for worker w: convert has thrown, or the feed is delivered
Settle(w, converted) ==
    IF converted.kind = "error"
    THEN /\ worker' = [worker EXCEPT ![w].pc = "ready", ![w].result = converted]
         /\ UNCHANGED <<fs, device>>
    ELSE LET d == Delivery(w, converted.path)
         IN  /\ worker' = [worker EXCEPT ![w].pc = "ready", ![w].result = d.result,
                                         ![w].source = converted.path]
             /\ fs' = d.fs
             /\ device' = d.device

\* browser.changeCameraSource(videoPath) in worker w, up to its return, its
\* throw or the await of convert.  The commands of the workers do not overlap
\* here (overlapping conversions are the subject of Spec).
ChangeCameraSource(w, videoPath) ==
    /\ worker[w].pc = "ready"
    /\ \A v \in Calls : worker[v].pc # "await"
    /\ call[w].pc \in {"idle", "done"}
    /\ ncalls < MaxCalls
    /\ ncalls' = ncalls + 1
    /\ LET cameraSource         == CameraSource(worker[w].capabilities)
           sourceCameraFeedPath == Resolve(videoPath)
           began                == [worker EXCEPT ![w].videoPath = videoPath,
                                                  ![w].source = None]
       IN  IF cameraSource = None
           THEN /\ worker' = [began EXCEPT ![w].result = Returned("no flag")]
                /\ UNCHANGED <<fs, device, call>>
           ELSE IF ~Exists(sourceCameraFeedPath)
           THEN /\ worker' = [began EXCEPT
                                ![w].result = NewSourceMissing(sourceCameraFeedPath)]
                /\ UNCHANGED <<fs, device, call>>
           ELSE IF requiresConversion(sourceCameraFeedPath)
           THEN LET entered == ConvertEntered(converter[w], videoPath)
                IN  IF entered.pc = "done"
                    THEN /\ call' = call
                         /\ IF entered.result.kind = "error"
                            THEN /\ worker' = [began EXCEPT ![w].result = entered.result]
                                 /\ UNCHANGED <<fs, device>>
                            ELSE LET d == Delivery(w, entered.result.path)
                                 IN  /\ worker' = [began EXCEPT
                                                     ![w].result = d.result,
                                                     ![w].source = entered.result.path]
                                     /\ fs' = d.fs
                                     /\ device' = d.device
                    ELSE /\ call' = [call EXCEPT ![w] = entered]
                         /\ worker' = [began EXCEPT ![w].pc = "await"]
                         /\ UNCHANGED <<fs, device>>
           ELSE LET d == Delivery(w, sourceCameraFeedPath)
                IN  /\ worker' = [began EXCEPT ![w].result = d.result,
                                               ![w].source = sourceCameraFeedPath]
                    /\ fs' = d.fs
                    /\ device' = d.device
                    /\ call' = call
    /\ UNCHANGED <<dirs, converter, hashed, _options, launcher>>

\* changeCameraSource after the await of convert
ChangeResume(w) ==
    /\ worker[w].pc = "await"
    /\ call[w].pc = "done"
    /\ Settle(w, call[w].result)
    /\ call' = [call EXCEPT ![w] = IdleCall]
    /\ UNCHANGED <<dirs, converter, ncalls, hashed, _options, launcher>>

\* the file the command of worker w writes to (the session file, or the file
\* of a capture flag of the user's own) is removed from outside the service,
\* while no command is running and before a command that can observe it
RemoveSessionFile(w) ==
    /\ \A v \in Calls : worker[v].pc # "await"
    /\ ncalls < MaxCalls
    /\ worker[w].pc = "ready"
    /\ LET cameraSource == CameraSource(worker[w].capabilities)
       IN  /\ cameraSource # None
           /\ Exists(cameraSource)
           /\ fs' = Unlink(fs, cameraSource)
    /\ UNCHANGED <<dirs, converter, call, ncalls, hashed, _options, launcher, worker, device>>

NextService ==
    \/ \E outcome \in ExecOutcomes, platform \in Platforms : OnPrepare(outcome, platform)
    \/ OnPrepareResume
    \/ RunnerContinues
    \/ \E w \in Calls : \E capabilities \in WorkerCapabilities(w) : OnWorkerStart(w, capabilities)
    \/ \E w \in Calls : Before(w)
    \/ \E w \in Calls : \E videoPath \in ChangeArgs(w) : ChangeCameraSource(w, videoPath)
    \/ \E w \in Calls : ChangeResume(w)
    \/ \E w \in Calls : RemoveSessionFile(w)
    \/ \E c \in Calls : EncoderOpen(c)
    \/ \E c \in Calls : EncoderFinish(c)
    \/ \E c \in Calls : EncoderFail(c)
    \/ \E c \in Calls : ConvertResume(c)
    \/ \E c \in Calls : CatchUnlink(c)

SpecService == InitService /\ [][NextService]_vars

(* ---------------------------------------------------------------------- *)
(* Properties                                                              *)
(* ---------------------------------------------------------------------- *)
\* caller c is a convert call on an existing convertible source
Convertible(c) ==
    /\ call[c].op = "convert"
    /\ call[c].format \in {"video", "image"}

\* the file at p is absent or holds all of one encoder run's output, or is
\* a file no encoder wrote
AbsentOrComplete(p) ==
    Observed(p).kind = "encoded" => Observed(p).state = "complete"

\* C1 as stated: for any converter, when the first of two successive convert
\* calls on an unchanged convertible source returned a path, the second is a
\* cache hit that returns that path, and the two calls run the encoder at
\* most once.
C1_SecondCallIsHit_AnyConverter ==
    \A c \in Calls :
        (/\ Convertible(c)
         /\ call[c].prev # None
         /\ call[c].prev.result.kind = "ok") =>
            /\ call[c].prev.runs + call[c].runs <= 1
            /\ call[c].hit
            /\ call[c].pc = "done"
            /\ call[c].result = call[c].prev.result

\* C1 amended: for a converter with caching enabled, when the first of two
\* successive convert calls on an unchanged convertible source returned a
\* path, the second call is a cache hit that returns the same path and runs
\* the encoder zero times, so the two calls run it at most once.
C1_SecondCallIsHit ==
    \A c \in Calls :
        (/\ Convertible(c)
         /\ call[c].cfg.cacheEnabled
         /\ call[c].prev # None
         /\ call[c].prev.result.kind = "ok") =>
            /\ call[c].runs = 0
            /\ call[c].prev.runs + call[c].runs <= 1
            /\ call[c].hit
            /\ call[c].pc = "done"
            /\ call[c].result = call[c].prev.result

\* a second call that hit the cache after a first call that ran the encoder
C1_Witness ==
    \E c \in Calls :
        /\ Convertible(c)
        /\ call[c].cfg.cacheEnabled
        /\ call[c].prev # None
        /\ call[c].prev.result.kind = "ok"
        /\ call[c].prev.runs = 1
        /\ call[c].hit
        /\ call[c].pc = "done"

\* C2: in every state of a convert call that runs the encoder, the encoder's
\* output target is <destination>.tmp and never the destination, and a
\* reader of the destination sees it absent or holding a complete file.
C2_EncoderWritesTempOnly ==
    \A c \in Calls :
        (call[c].op = "convert" /\ call[c].runs = 1) =>
            LET out    == call[c].out
                target == call[c].cmd.out
            IN  /\ target = [out EXCEPT !.ext = @ \o <<".","t","m","p">>]
                /\ target # out
                /\ AbsentOrComplete(out)

\* the encoder is writing: the temporary file is partial, the destination absent
C2_Witness ==
    \E c \in Calls :
        /\ call[c].pc = "await"
        /\ call[c].enc = "writing"
        /\ Exists(call[c].cmd.out)
        /\ Data(call[c].cmd.out).state = "partial"
        /\ ~Exists(call[c].out)

\* C3: under every interleaving of two convert calls on one not yet cached
\* fingerprint, the file at the final cache path is at every moment absent
\* or a complete encoder output, and once both calls have returned after
\* their encoders succeeded it exists and is complete.
C3_FinalPathNeverPartial ==
    /\ \A c \in Calls :
          (call[c].op = "convert" /\ call[c].cfg.cacheEnabled /\ call[c].runs = 1) =>
              AbsentOrComplete(call[c].out)
    /\ \A c, d \in Calls :
          (/\ c # d
           /\ call[c].op = "convert" /\ call[d].op = "convert"
           /\ call[c].cfg.cacheEnabled
           /\ call[c].runs = 1 /\ call[d].runs = 1
           /\ call[c].out = call[d].out
           /\ call[c].pc = "done" /\ call[d].pc = "done"
           /\ call[c].exit = ExecOk /\ call[d].exit = ExecOk) =>
              /\ Exists(call[c].out)
              /\ Data(call[c].out).kind = "encoded"
              /\ Data(call[c].out).state = "complete"

\* a call of caller c reaches its end in this step
Completes(c) ==
    /\ call[c].pc \in {"await", "catch", "unlink"}
    /\ call'[c].pc = "done"

\* caller c makes a call of operation op in this step
Begins(c, op) ==
    /\ ncalls' = ncalls + 1
    /\ call'[c] # call[c]
    /\ call'[c].op = op

\* the extensions the classifier accepts
AcceptedExtensions == { e[1] : e \in EXTENSION_TO_FORMAT }

\* C4 as stated: when the encoder of a convert call failed, no file exists
\* at the final destination path or at the temporary path once the call has
\* finished; and no convert call leaves its temporary file behind.
C4_NothingLeftAfterFailure_AnyDestination ==
    [][\A c \in Calls :
          Completes(c) =>
              /\ call[c].cmd.out \notin DOMAIN fs'
              /\ call'[c].exit = ExecFailed => call[c].out \notin DOMAIN fs']_vars

\* C4 amended: when calls do not overlap and the encoder of a convert call
\* failed, then once the call has finished the final destination path holds
\* what it held when the call began (no file, when caching is enabled) and
\* no file exists at the temporary path; and no convert call, successful or
\* not, leaves its temporary file behind.
C4_NothingLeftAfterFailure ==
    [][\A c \in Calls :
          Completes(c) =>
              /\ call[c].cmd.out \notin DOMAIN fs'
              /\ call'[c].exit = ExecFailed =>
                    /\ Observed(call[c].out)' = call[c].before
                    /\ call[c].cfg.cacheEnabled => call[c].out \notin DOMAIN fs']_vars

\* a call whose encoder failed after it had opened the temporary file, with
\* caching disabled and a file already at the destination: the temporary
\* file is gone and the destination is as before
C4_Witness ==
    \E c \in Calls :
        /\ call[c].pc = "done"
        /\ call[c].exit = ExecFailed
        /\ call[c].wrote
        /\ ~call[c].cfg.cacheEnabled
        /\ call[c].before # None
        /\ ~Exists(call[c].cmd.out)
        /\ Observed(call[c].out) = call[c].before

\* C5: convert on an existing file whose extension is .mjpeg or .y4m in any
\* letter case returns the resolved absolute source path, runs no encoder
\* and leaves every file and directory as it was, whatever the output
\* format and the caching option.
C5_NativePassThrough ==
    [][\A c \in Calls :
          (/\ Begins(c, "convert")
           /\ call'[c].abs \in DOMAIN fs
           /\ ToLowerCase(call'[c].abs.ext) \in {ExtMjpeg, ExtY4m}) =>
              /\ call'[c].pc = "done"
              /\ call'[c].result = Ok(call'[c].abs)
              /\ call'[c].abs.abs
              /\ call'[c].runs = 0
              /\ call'[c].enc = "none"
              /\ fs' = fs
              /\ dirs' = dirs]_vars

\* an upper-case .Y4M source passed through by a converter with caching
\* disabled and output format mjpeg
C5_Witness ==
    \E c \in Calls :
        /\ call[c].op = "convert"
        /\ call[c].pc = "done"
        /\ call[c].format = "y4m"
        /\ call[c].abs.ext # ExtY4m
        /\ call[c].result = Ok(call[c].abs)
        /\ ~call[c].cfg.cacheEnabled
        /\ call[c].cfg.outputFormat = OutMjpeg

\* C6: convert on an existing file whose extension the classifier does not
\* accept fails with UnsupportedFormatError naming the path and the
\* extension and listing exactly the accepted extensions; it runs no encoder
\* and changes no file or directory.
C6_UnsupportedFormat ==
    [][\A c \in Calls :
          (/\ Begins(c, "convert")
           /\ call'[c].abs \in DOMAIN fs
           /\ ToLowerCase(call'[c].abs.ext) \notin AcceptedExtensions) =>
              LET r == call'[c].result
              IN  /\ call'[c].pc = "done"
                  /\ r.kind = "error"
                  /\ r.name = "UnsupportedFormatError"
                  /\ r.filePath = call'[c].abs
                  /\ r.extension = call'[c].abs.ext
                  /\ r.message.file = call'[c].abs
                  /\ r.message.extension = call'[c].abs.ext
                  /\ { r.message.supported[i] : i \in 1..Len(r.message.supported) }
                        = AcceptedExtensions
                  /\ call'[c].runs = 0
                  /\ fs' = fs
                  /\ dirs' = dirs]_vars

\* convert on notes.txt has failed with UnsupportedFormatError
C6_Witness ==
    \E c \in Calls :
        /\ call[c].op = "convert"
        /\ call[c].pc = "done"
        /\ call[c].abs.ext = ExtTxt
        /\ call[c].result.kind = "error"
        /\ call[c].result.name = "UnsupportedFormatError"

\* C7: convert on a path at which no file exists fails with 'Source file
\* not found' naming the path, before the path is classified, also when the
\* extension is native or unrecognized; it runs no encoder and changes no
\* file or directory.
C7_SourceNotFound ==
    [][\A c \in Calls :
          (Begins(c, "convert") /\ call'[c].abs \notin DOMAIN fs) =>
              /\ call'[c].pc = "done"
              /\ call'[c].result.kind = "error"
              /\ call'[c].result.name = "Error"
              /\ call'[c].result.message.text = "Source file not found: "
              /\ call'[c].result.message.path = call'[c].abs
              /\ call'[c].format = "none"
              /\ call'[c].runs = 0
              /\ fs' = fs
              /\ dirs' = dirs]_vars

\* convert has failed so on a missing .mjpeg path and on a missing .txt path
C7_Witness ==
    \E c, d \in Calls :
        /\ call[c].op = "convert" /\ call[d].op = "convert"
        /\ call[c].pc = "done" /\ call[d].pc = "done"
        /\ call[c].abs.ext = ExtMjpeg /\ call[d].abs.ext = ExtTxt
        /\ ~Exists(call[c].abs) /\ ~Exists(call[d].abs)
        /\ call[c].result = SourceNotFound(call[c].abs)
        /\ call[d].result = SourceNotFound(call[d].abs)

\* C8 as stated: whenever a file exists at the fingerprint-addressed cache
\* path of a convertible source, convert returns that path, runs no encoder
\* and changes no file.
C8_CacheHit_AnyConverter ==
    [][\A c \in Calls :
          (/\ Begins(c, "convert")
           /\ call'[c].format \in {"video", "image"}
           /\ CachePath(call'[c].cfg, computeFileHash(call'[c].abs)) \in DOMAIN fs) =>
              /\ call'[c].pc = "done"
              /\ call'[c].result =
                    Ok(CachePath(call'[c].cfg, computeFileHash(call'[c].abs)))
              /\ call'[c].runs = 0
              /\ fs' = fs
              /\ dirs' = dirs]_vars

\* C8 amended: for a converter with caching enabled, whenever a file exists
\* at the fingerprint-addressed cache path of a convertible source, whichever
\* source path or earlier call created it, convert returns that path, runs
\* no encoder and changes no file.
C8_CacheHit ==
    [][\A c \in Calls :
          (/\ Begins(c, "convert")
           /\ call'[c].cfg.cacheEnabled
           /\ call'[c].format \in {"video", "image"}
           /\ CachePath(call'[c].cfg, computeFileHash(call'[c].abs)) \in DOMAIN fs) =>
              /\ call'[c].pc = "done"
              /\ call'[c].result =
                    Ok(CachePath(call'[c].cfg, computeFileHash(call'[c].abs)))
              /\ call'[c].runs = 0
              /\ fs' = fs
              /\ dirs' = dirs]_vars

\* a cache hit on an entry that a conversion of another source path created
C8_Witness ==
    \E c \in Calls :
        /\ Convertible(c)
        /\ call[c].hit
        /\ call[c].pc = "done"
        /\ Exists(call[c].result.path)
        /\ fs[call[c].result.path].by # call[c].abs

\* C9: getCachedPath returns the fingerprint-addressed cache path exactly
\* when caching is enabled, the source exists and a file exists at that
\* path, and null otherwise, also for a missing source; it runs no encoder
\* and changes no file or directory.
C9_GetCachedPath ==
    [][\A c \in Calls :
          Begins(c, "getCachedPath") =>
              LET cfg == call'[c].cfg
                  src == call'[c].abs
                  r   == call'[c].result
              IN  /\ call'[c].pc = "done"
                  /\ IF /\ cfg.cacheEnabled
                        /\ src \in DOMAIN fs
                        /\ CachePath(cfg, computeFileHash(src)) \in DOMAIN fs
                     THEN /\ r.dir = CacheDir
                          /\ r.base = computeFileHash(src)
                          /\ r.ext = <<".">> \o cfg.outputFormat
                          /\ r \in DOMAIN fs
                     ELSE r = None
                  /\ call'[c].runs = 0
                  /\ fs' = fs
                  /\ dirs' = dirs]_vars

\* getCachedPath of a converter with caching enabled has returned the cache
\* entry that an earlier conversion created
C9_Witness ==
    \E c \in Calls :
        /\ call[c].op = "getCachedPath"
        /\ call[c].pc = "done"
        /\ call[c].cfg.cacheEnabled
        /\ call[c].result # None
        /\ Exists(call[c].result)
        /\ Data(call[c].result).kind = "encoded"

\* C10: two files get the same cache key exactly when they have the same
\* length and the same first 64 KiB (the same bytes, when shorter).
C10_KeyIffPrefixAndLength ==
    (hashed.kind = "keys" /\ hashed.a # None /\ hashed.b # None) =>
        LET x == Data(FileA).bytes
            y == Data(FileB).bytes
        IN  (hashed.a = hashed.b) <=>
                (/\ Size(x) = Size(y)
                 /\ Norm(Take(x, 65536)) = Norm(Take(y, 65536)))

\* two files that differ only beyond the first 64 KiB have the same key
C10_Witness ==
    /\ hashed.kind = "keys"
    /\ hashed.a # None
    /\ hashed.a = hashed.b
    /\ Data(FileA) # Data(FileB)

\* p is a final cache path: <cacheDir>/<name>.<output format>
FinalCachePath(p) ==
    /\ p.dir = CacheDir
    /\ p.ext \in { <<".">> \o OutMjpeg, <<".">> \o OutY4m }

\* C11: once a file exists at a final cache path, no step of initialize,
\* getCachedPath or convert deletes it or changes its content.
C11_CacheEntryNeverChanges ==
    [][\A p \in DOMAIN fs :
          FinalCachePath(p) => (p \in DOMAIN fs' /\ fs'[p].data = fs[p].data)]_vars

\* the files inside the cache directory
CacheFiles(f) == { p \in DOMAIN f : p.dir = CacheDir }

\* C12: a convert call that misses the cache has the destination
\* <cacheDir>/<fingerprint>.<outputFormat> when caching is enabled and
\* <source directory>/<source base name>.<outputFormat> when it is disabled;
\* no step of a call of a converter with caching disabled creates or changes
\* a file inside the cache directory, and while every converter has caching
\* disabled the cache directory does not exist and holds no file.
C12_DestinationOfMiss ==
    [][/\ \A c \in Calls :
             (Begins(c, "convert") /\ call'[c].pc = "await") =>
                 LET cfg == call'[c].cfg
                     src == call'[c].abs
                 IN  /\ call'[c].out.abs
                     /\ call'[c].out.ext = <<".">> \o cfg.outputFormat
                     /\ cfg.cacheEnabled =>
                           /\ call'[c].out.dir = VideoDirectory \o <<".cache">>
                           /\ call'[c].out.base = computeFileHash(src)
                     /\ ~cfg.cacheEnabled =>
                           /\ call'[c].out.dir = src.dir
                           /\ call'[c].out.base = src.base
       /\ \A c \in Calls :
             (call'[c] # call[c] /\ ~converter[c].cacheEnabled) =>
                 /\ CacheFiles(fs') = CacheFiles(fs)
                 /\ \A p \in CacheFiles(fs) : fs'[p] = fs[p]
       /\ (\A c \in Calls : ~converter[c].cacheEnabled) =>
             /\ CacheDir \notin dirs'
             /\ CacheFiles(fs') = {}]_vars

\* one converter with caching enabled has converted into the cache directory
\* and one with caching disabled has converted to the sibling of its source
C12_Witness ==
    \E c, d \in Calls :
        /\ call[c].cfg # None /\ call[d].cfg # None
        /\ call[c].cfg.cacheEnabled /\ ~call[d].cfg.cacheEnabled
        /\ call[c].pc = "done" /\ call[d].pc = "done"
        /\ call[c].runs = 1 /\ call[d].runs = 1
        /\ call[c].result = Ok(call[c].out) /\ call[d].result = Ok(call[d].out)
        /\ call[c].out.dir = CacheDir /\ call[d].out.dir = MediaDir
        /\ Exists(call[c].out) /\ Exists(call[d].out)

\* C13: initialize creates the cache directory and its parent only when
\* caching is enabled and the directory does not exist, and is a no-op
\* otherwise; a second initialize changes nothing after the first; the step
\* that creates the directory changes no file.
C13_InitializeIdempotent ==
    [][/\ dirs' # dirs =>
             /\ \E c \in Calls : converter[c].cacheEnabled
             /\ CacheDir \notin dirs
             /\ dirs' = dirs \cup {VideoDirectory, VideoDirectory \o <<".cache">>}
             /\ fs' = fs
             /\ call' = call
       /\ \A c \in Calls :
             LET once == initialize(converter[c], dirs)
             IN  /\ initialize(converter[c], once) = once
                 /\ ~converter[c].cacheEnabled => once = dirs
                 /\ (VideoDirectory \o <<".cache">>) \in dirs => once = dirs
                 /\ dirs \subseteq once]_vars

\* initialize has created the cache directory, which holds an entry by now
C13_Witness ==
    /\ CacheDir \in dirs
    /\ VideoDirectory \in dirs
    /\ \E c \in Calls : converter[c].cacheEnabled
    /\ \E p \in DOMAIN fs : FinalCachePath(p)

\* the await of caller c returns in this step, after its encoder has failed
ResumesAfterFailure(c) ==
    /\ call[c].pc = "await"
    /\ call[c].enc = "exited"
    /\ call[c].exit = ExecFailed
    /\ call'[c].pc # "await"

\* C14: when the encoder fails, convert throws ConversionError naming the
\* source file and carrying the encoder's stderr text when that text is
\* non-empty, and the generic failure message of the subprocess otherwise.
C14_ConversionErrorOutput ==
    [][\A c \in Calls :
          ResumesAfterFailure(c) =>
              LET stderr == StderrOf(call[c].abs)
                  r      == call'[c].result
              IN  /\ r.kind = "error"
                  /\ r.name = "ConversionError"
                  /\ r.sourceFile = call[c].abs
                  /\ r.ffmpegOutput = IF stderr.defined /\ stderr.text # ""
                                      THEN stderr.text
                                      ELSE ExecError(stderr).message]_vars

\* r is one of the three failures of convert
DeclaredFailure(r) ==
    \/ r.name = "Error" /\ "message" \in DOMAIN r
                        /\ r.message.text = "Source file not found: "
    \/ r.name = "UnsupportedFormatError"
    \/ r.name = "ConversionError"

\* C15: every convert call that fails, fails with SourceNotFound,
\* UnsupportedFormatError or ConversionError, also when the failure arises
\* in renaming the temporary file or in cleaning up; and no convert call
\* runs the encoder more than once.
C15_OnlyDeclaredFailures ==
    \A c \in Calls :
        call[c].op = "convert" =>
            /\ call[c].runs <= 1
            /\ (call[c].pc = "done" /\ call[c].result.kind = "error") =>
                  DeclaredFailure(call[c].result)

\* C16: when the encoder has failed and the temporary file exists, convert
\* throws the ConversionError of that failure, whether unlinkSync on the
\* temporary file succeeds or throws.
C16_CleanupKeepsOriginalError ==
    [][\A c \in Calls :
          (/\ call[c].pc = "unlink"
           /\ call[c].exit = ExecFailed
           /\ call'[c].pc = "done") =>
              /\ call[c].result.name = "ConversionError"
              /\ call'[c].result = call[c].result]_vars

C18_ImageLoopOptions ==
    \A c \in Calls :
        (call[c].op = "convert" /\ call[c].format = "image" /\ call[c].runs = 1) =>
            \A options \in Options :
                FormatConverter(options) = call[c].cfg =>
                    LET cmd == call[c].cmd
                    IN  /\ {"loop", "t", "r"} \subseteq DOMAIN cmd
                        /\ cmd.loop = 1
                        /\ cmd.t = options.imageDuration
                        /\ cmd.r = options.imageFrameRate

\* the name ffmpeg's -f option has for an output format
FormatName(outputFormat) == IF outputFormat = OutMjpeg THEN "mjpeg" ELSE "y4m"

\* C19: every conversion asks the encoder for the container of the
\* configured output format, and every encoded file at a path with
\* extension .mjpeg or .y4m holds data in that container.
C19_ContainerMatchesFormat ==
    /\ \A c \in Calls :
          (call[c].op = "convert" /\ call[c].runs = 1) =>
              call[c].cmd.f = FormatName(call[c].cfg.outputFormat)
    /\ \A p \in DOMAIN fs :
          fs[p].data.kind = "encoded" =>
              /\ p.ext = <<".">> \o OutMjpeg => fs[p].data.media.f = "mjpeg"
              /\ p.ext = <<".">> \o OutY4m => fs[p].data.media.f = "y4m"

\* the class the claim gives a lower-cased extension
ClassOf(ext) ==
    IF ext = ExtMjpeg THEN "mjpeg"
    ELSE IF ext = ExtY4m THEN "y4m"
    ELSE IF ext \in {ExtMp4, ExtWebm, ExtAvi, ExtMov, ExtGif} THEN "video"
    ELSE IF ext \in {ExtPng, ExtJpg, ExtJpeg, ExtBmp} THEN "image"
    ELSE "unknown"

C21_GifIsImage ==
    \A c \in Calls :
        (call[c].op = "detectFormat" /\ ToLowerCase(call[c].abs.ext) = ExtGif) =>
            /\ call[c].result.value = "image"
            /\ call[c].result.value =
                   detectFormat([call[c].abs EXCEPT !.ext = ExtPng])

\* C22: checkFfmpegAvailability reports available exactly when the version
\* command executed successfully, parsed version or not; then path is the
\* probed executable and error is null; otherwise path and version are null
\* and error is the failure message.  The probe returns a value in every case.
C22_ProbeAvailability ==
    \A c \in Calls :
        call[c].op = "checkFfmpegAvailability" =>
            LET r == call[c].result
            IN  /\ DOMAIN r = {"available", "path", "version", "error"}
                /\ r.available = call[c].exit.ok
                /\ r.available =>
                      /\ r.path = call[c].cmd.exe
                      /\ r.error = None
                /\ ~r.available =>
                      /\ r.path = None
                      /\ r.version = None
                      /\ r.error = Str(call[c].exit.thrown)

\* the probe has reported available without a version, and unavailable
C22_Witness ==
    \E c, d \in Calls :
        /\ call[c].op = "checkFfmpegAvailability"
        /\ call[c].result.available /\ call[c].result.version = None
        /\ call[c].abs # None
        /\ call[d].op = "checkFfmpegAvailability"
        /\ ~call[d].result.available /\ call[d].abs = None

(* ---------------------------------------------------------------------- *)
(* Claims about the camera service (SpecService)                           *)
(* ---------------------------------------------------------------------- *)
\* the session feed files on the local file system
SessionFiles == { p \in DOMAIN fs : p.dir = VideoDirectory }

\* the contents of the media files whose extension is unrecognized (the
\* files of the user, not the temporary files of the encoder)
UnrecognizedData ==
    { fs[p].data : p \in { x \in DOMAIN fs : /\ x.dir = MediaDir
                                             /\ detectFormat(x) = "unknown"
                                             /\ fs[x].data.kind = "source" } }

\* C23: a file with an unrecognized extension used as a feed makes the
\* service fail with UnsupportedFormatError: as defaultCameraFeed no worker
\* is started with it, as argument of changeCameraSource (capture flag
\* present) the command throws it; and no session feed file and no file
\* pushed to a device ever holds the bytes of such a file.
C23_UnrecognizedRejected ==
    /\ detectFormat(_options.defaultCameraFeed) = "unknown" =>
          /\ launcher.pc \in {"constructed", "failed"}
          /\ launcher.pc = "failed" => launcher.error.name = "UnsupportedFormatError"
    /\ \A w \in Calls :
          ( /\ worker[w].pc = "ready"
            /\ worker[w].videoPath # None
            /\ detectFormat(worker[w].videoPath) = "unknown"
            /\ CameraSource(worker[w].capabilities) # None ) =>
              /\ worker[w].result.kind = "error"
              /\ worker[w].result.name = "UnsupportedFormatError"
    /\ \A p \in SessionFiles : fs[p].data \notin UnrecognizedData
    /\ \A q \in DOMAIN device : device[q].base64 \notin UnrecognizedData

\* the installation commands the guidance names on the known platforms
PlatformCommands(platform) ==
    IF platform = "darwin" THEN {"brew install ffmpeg"}
    ELSE IF platform = "linux" THEN {"sudo apt-get install ffmpeg"}
    ELSE IF platform = "win32" THEN {"winget install FFmpeg"}
    ELSE {}

\* C24: when defaultCameraFeed requires conversion and the probe reports the
\* encoder unavailable, onPrepare fails with FfmpegNotFoundError; the message
\* names the feed and carries the guidance of the host platform (an
\* installation command of darwin, linux or win32, the generic text on any
\* other platform); no conversion was attempted, no converter and no cache
\* directory were created, and no file was written.
C24_ProbeFailure ==
    /\ (launcher.probe # None /\ ~launcher.probe.available) =>
          /\ launcher.pc = "failed"
          /\ launcher.error.name = "FfmpegNotFoundError"
    /\ (launcher.pc = "failed" /\ launcher.error.name = "FfmpegNotFoundError") =>
          LET guidance == launcher.error.message.instructions
              platform == launcher.platform.str
          IN  /\ requiresConversion(_options.defaultCameraFeed)
              /\ ~launcher.probe.available
              /\ launcher.error.message.feed = _options.defaultCameraFeed
              /\ PlatformCommands(platform) \subseteq guidance.install
              /\ guidance.generic <=> (platform \notin {"darwin", "linux", "win32"})
              /\ guidance.generic => guidance.install = {}
              /\ launcher.converter = None
              /\ launcher.convertedDefaultFeed = None
              /\ CacheDir \notin dirs
              /\ \A c \in Calls : call[c] = IdleCall
              /\ \A p \in DOMAIN fs : p.dir = MediaDir /\ fs[p].data.kind = "source"
              /\ \A w \in Calls : worker[w].pc = "none"

\* onPrepare has failed on linux for want of the encoder, the feed being a
\* video and the output directory made
C24_Witness ==
    /\ launcher.pc = "failed"
    /\ launcher.error.name = "FfmpegNotFoundError"
    /\ launcher.platform = Str("linux")
    /\ detectFormat(_options.defaultCameraFeed) = "video"
    /\ _options.cacheEnabled
    /\ VideoDirectory \in dirs

\* a feed in one of the two formats the browser reads
NativeFeed(p) == detectFormat(p) \in {"mjpeg", "y4m"}

\* C25: the service executes the encoder only for a feed that is not native:
\* the probe runs only when the default feed is not native, and an encoder
\* is started only by onPrepare for a default feed that is not native or by
\* a changeCameraSource whose argument is not native.  With a native default
\* feed onPrepare neither probes nor converts, and a changeCameraSource with
\* a native argument enters no conversion.
C25_NativeNeverEncodes ==
    [][ /\ launcher'.probe # launcher.probe => ~NativeFeed(_options.defaultCameraFeed)
        /\ NativeFeed(_options.defaultCameraFeed) =>
              /\ launcher'.probe = None
              /\ launcher'.pc # "converting"
        /\ \A w \in Calls :
              ( /\ worker'[w] # worker[w]
                /\ worker'[w].videoPath # None
                /\ NativeFeed(worker'[w].videoPath) ) =>
                  /\ call'[w] = call[w]
                  /\ worker'[w].pc # "await"
        /\ \A c \in Calls :
              (call'[c].runs > call[c].runs \/ (call[c].enc = "none" /\ call'[c].enc # "none")) =>
                  \/ launcher'.pc = "converting" /\ ~NativeFeed(_options.defaultCameraFeed)
                  \/ worker'[c].pc = "await" /\ ~NativeFeed(worker'[c].videoPath)
      ]_vars

\* with a native default feed and no probe, a command with a native argument
\* has replaced the session file, and no file of an encoder exists
C25_Witness ==
    /\ NativeFeed(_options.defaultCameraFeed)
    /\ launcher.pc = "prepared" /\ launcher.probe = None
    /\ \E w \in Calls :
          /\ worker[w].pc = "ready"
          /\ worker[w].videoPath # None
          /\ NativeFeed(worker[w].videoPath)
          /\ worker[w].result = Returned("written")
    /\ \A p \in DOMAIN fs : fs[p].data.kind = "source"

\* the browser name of the capabilities contains part, in any letter case
BrowserNameHas(capabilities, part) ==
    /\ capabilities.browserName # None
    /\ LET name == ToLowerCase(capabilities.browserName.text)
       IN  \E i \in 1..Len(name) : i + Len(part) - 1 <= Len(name) /\
                                   SubSeq(name, i, i + Len(part) - 1) = part

\* the platform name of the capabilities contains 'android', in any letter case
OnAndroid(capabilities) ==
    /\ capabilities.platformName # None
    /\ LET name == ToLowerCase(capabilities.platformName.text)
       IN  \E i \in 1..Len(name) : i + 6 <= Len(name) /\
                                   SubSeq(name, i, i + 6) = <<"a","n","d","r","o","i","d">>

\* the args of the capabilities, none when the options or the list are missing
ArgsOf(capabilities) ==
    IF capabilities.chromeOptions = None THEN <<>>
    ELSE IF capabilities.chromeOptions.args = None THEN <<>>
    ELSE capabilities.chromeOptions.args.list

\* <directory>/<cid>.<ext> for the configured output format
SessionFileIn(directory, w) ==
    [abs |-> TRUE, dir |-> directory, base |-> [name |-> Cid(w)],
     ext |-> IF _options.outputFormat = OutY4m THEN ExtY4m ELSE ExtMjpeg]

\* worker w is started in this step
Starts(w) == worker[w].pc = "none" /\ worker'[w].pc = "started"

\* the three camera flags, in order, for a session file
ThreeFlags(session) ==
    << [name |-> "--use-fake-device-for-media-stream", value |-> None],
       [name |-> "--use-fake-ui-for-media-stream", value |-> None],
       [name |-> "--use-file-for-fake-video-capture", value |-> session] >>

\* onWorkerStart for a 'chrom' browser leaves the capabilities with the args
\* that were present followed by the three flags, and nothing else changed
FlagsAppended(w) ==
    LET requested == worker'[w].requested
        after     == worker'[w].capabilities
        session   == SessionFileIn(IF OnAndroid(requested) THEN AndroidVideoDirectory
                                   ELSE VideoDirectory, w)
    IN  /\ after.browserName = requested.browserName
        /\ after.platformName = requested.platformName
        /\ after.chromeOptions # None
        /\ after.chromeOptions.args # None
        /\ after.chromeOptions.args.list = ArgsOf(requested) \o ThreeFlags(session)

\* C26 as stated: for a browserName containing 'chrom', onWorkerStart
\* appends exactly the three flags after the args already present, creating
\* options and list when missing, and on desktop the session file
\* <videoDirectory>/<cid>.<ext> then holds the bytes of the file that
\* defaultCameraFeed names.
C26_SessionHoldsDefaultFeedFile ==
    [][ \A w \in Calls :
          (Starts(w) /\ BrowserNameHas(worker'[w].requested, <<"c","h","r","o","m">>)) =>
              /\ FlagsAppended(w)
              /\ ~OnAndroid(worker'[w].requested) =>
                    /\ SessionFileIn(VideoDirectory, w) \in DOMAIN fs'
                    /\ fs'[SessionFileIn(VideoDirectory, w)].data =
                           fs[Resolve(_options.defaultCameraFeed)].data
      ]_vars

\* C26 (amended): for a browserName containing 'chrom', onWorkerStart appends
\* exactly the three flags, in order, after the args already present,
\* creating options and list when missing; on desktop the session file
\* <videoDirectory>/<cid>.<ext> then holds the bytes of the file that convert
\* returned in onPrepare when the default feed requires conversion and
\* onPrepare has returned, and the bytes of the default feed file otherwise
\* (no conversion required, or onPrepare has thrown).
C26_WorkerStartFlags ==
    [][ \A w \in Calls :
          (Starts(w) /\ BrowserNameHas(worker'[w].requested, <<"c","h","r","o","m">>)) =>
              /\ FlagsAppended(w)
              /\ ~OnAndroid(worker'[w].requested) =>
                    /\ SessionFileIn(VideoDirectory, w) \in DOMAIN fs'
                    /\ fs'[SessionFileIn(VideoDirectory, w)].data =
                           IF /\ detectFormat(_options.defaultCameraFeed) \in {"video", "image"}
                              /\ launcher.pc = "prepared"
                           THEN fs[launcher.convertedDefaultFeed].data
                           ELSE fs[Resolve(_options.defaultCameraFeed)].data
                    /\ \A p \in DOMAIN fs : p \in DOMAIN fs' /\ fs'[p] = fs[p]
      ]_vars

\* a desktop Chrome with an argument of its own has been started and its
\* session file holds the converted default feed; a Chrome without options
\* has been started as well
C26_Witness ==
    /\ worker["p"].pc = "started"
    /\ worker["p"].requested = Capabilities(BrowserGoogleChrome, PlatformDesktop,
                                            [args |-> ExistingArgs])
    /\ Len(worker["p"].capabilities.chromeOptions.args.list) = 4
    /\ launcher.convertedDefaultFeed # None
    /\ SessionFileIn(VideoDirectory, "p") \in DOMAIN fs
    /\ fs[SessionFileIn(VideoDirectory, "p")].data.kind = "encoded"
    /\ worker["q"].pc = "started"
    /\ worker["q"].requested.chromeOptions = None

\* C27: for a browserName that does not contain 'chrom', onWorkerStart
\* leaves the capabilities object as it received it, reads no feed and
\* writes no file, locally or on a device.
C27_OtherBrowsersUntouched ==
    [][ \A w \in Calls :
          (Starts(w) /\ ~BrowserNameHas(worker'[w].requested, <<"c","h","r","o","m">>)) =>
              /\ worker'[w].capabilities = worker'[w].requested
              /\ worker'[w].source = None
              /\ fs' = fs
              /\ device' = device
              /\ dirs' = dirs
      ]_vars

\* a Firefox worker has been started after a default feed was prepared, and
\* has no session file
C27_Witness ==
    /\ worker["p"].pc = "started"
    /\ worker["p"].requested = Capabilities(BrowserFirefox, None, None)
    /\ worker["p"].capabilities.chromeOptions = None
    /\ launcher.pc = "prepared"
    /\ SessionFiles = {}

\* worker w runs Chrome on Android
AndroidChrome(w) ==
    /\ worker[w].requested # None
    /\ OnAndroid(worker[w].requested)
    /\ BrowserNameHas(worker[w].requested, <<"c","h","r","o","m","e">>)

\* the value of the capture flag among the args of worker w
CaptureFlagValue(w) ==
    LET args == ArgsOf(worker[w].capabilities)
    IN  (CHOOSE a \in { args[i] : i \in 1..Len(args) } :
             a.name = "--use-file-for-fake-video-capture").value

\* for Android Chrome no session file of the worker and no file of the
\* Android download directory exists on the local file system,
\* the capture flag names <Android download directory>/<cid>.<ext>, and the
\* device holds files at no other path.
C28_AndroidNothingLocal ==
    \A w \in Calls :
        (AndroidChrome(w) /\ worker[w].pc \in {"started", "ready", "await"}) =>
            /\ CaptureFlagValue(w) = SessionFileIn(AndroidVideoDirectory, w)
            /\ SessionFileIn(VideoDirectory, w) \notin DOMAIN fs
            /\ \A p \in DOMAIN fs : p.dir # AndroidVideoDirectory
            /\ DOMAIN device \subseteq {CaptureFlagValue(w)}

\* C28: for Android Chrome the service never writes the feed to the local
\* file system: onWorkerStart writes no file and points the capture flag at
\* <Android download directory>/<cid>.<ext>; a changeCameraSource that
\* returns without error has pushed, to the path the capture flag names and
\* to no other, the base64 encoding of the bytes of the feed (the source
\* file when it is native, the file convert returned otherwise), and the
\* step that delivers changes no local file; the device changes in no
\* other step.
C28_AndroidPushOnly ==
    /\ []C28_AndroidNothingLocal
    /\ [][
        /\ \A w \in Calls :
              /\ (Starts(w) /\ AndroidChrome(w)') => (fs' = fs /\ device' = device)
              /\ ( /\ AndroidChrome(w)
                    /\ worker[w].pc \in {"ready", "await"}
                    /\ worker'[w].pc = "ready"
                    /\ worker'[w] # worker[w]
                    /\ worker'[w].result.kind = "ok" ) =>
                      LET feed == IF NativeFeed(worker'[w].videoPath)
                                  THEN Resolve(worker'[w].videoPath)
                                  ELSE worker'[w].source
                      IN  /\ fs' = fs
                          /\ feed \in DOMAIN fs
                          /\ DOMAIN device' = {CaptureFlagValue(w)}
                          /\ device'[CaptureFlagValue(w)] = [base64 |-> fs[feed].data]
                          /\ detectFormat(worker'[w].videoPath) \in {"video", "image"} =>
                                 /\ NativeFeed(feed)
                                 /\ fs[feed].data.kind = "encoded"
        /\ device' # device =>
              \E w \in Calls : AndroidChrome(w) /\ worker'[w] # worker[w]
      ]_vars

\* the Android worker has pushed a native feed in its second command, a
\* converted file being there
C28_Witness ==
    /\ AndroidChrome("q")
    /\ worker["q"].pc = "ready"
    /\ worker["q"].result = Returned("pushed")
    /\ worker["q"].videoPath = AbsFile("photo", ExtMjpeg)
    /\ ncalls = 2
    /\ device[SessionFileIn(AndroidVideoDirectory, "q")] =
           [base64 |-> fs[AbsFile("photo", ExtMjpeg)].data]
    /\ \E p \in DOMAIN fs : fs[p].data.kind = "encoded"

\* worker w runs Chrome on a desktop
DesktopChrome(w) ==
    /\ worker[w].requested # None
    /\ ~OnAndroid(worker[w].requested)
    /\ BrowserNameHas(worker[w].requested, <<"c","h","r","o","m","e">>)

\* a command of worker w ends in this step
Ends(w) ==
    /\ worker[w].pc \in {"ready", "await"}
    /\ worker'[w].pc = "ready"
    /\ worker'[w] # worker[w]

\* the bytes of the media file a path names
BytesOf(path) == fs[Resolve(path)].data.bytes

\* C29 (the last call): while the session file of a desktop Chrome worker
\* whose last command succeeded exists, it holds the feed of that command:
\* the bytes of its argument when that is native, an encoding of its
\* argument when that requires conversion.
C29_HoldsLastFeed ==
    \A w \in Calls :
        ( /\ DesktopChrome(w)
          /\ worker[w].pc = "ready"
          /\ worker[w].videoPath # None
          /\ worker[w].result.kind = "ok"
          /\ CaptureFlagValue(w) \in DOMAIN fs ) =>
            LET held == fs[CaptureFlagValue(w)].data
            IN  /\ NativeFeed(worker[w].videoPath) =>
                      held = fs[Resolve(worker[w].videoPath)].data
                /\ detectFormat(worker[w].videoPath) \in {"video", "image"} =>
                      /\ held.kind = "encoded"
                      /\ held.media.input = BytesOf(worker[w].videoPath)

\* C29: when changeCameraSource(p) returns without error on desktop Chrome,
\* the session file named by the capture flag holds exactly the bytes of p
\* when p is native, and exactly the bytes of the file convert(p) returned
\* when p requires conversion, and no other file has changed; after several
\* successful calls the session file holds the feed of the last one.
C29_SessionHoldsFeed ==
    /\ []C29_HoldsLastFeed
    /\ [][ \A w \in Calls :
             (DesktopChrome(w) /\ Ends(w) /\ worker'[w].result.kind = "ok") =>
                 LET session   == CaptureFlagValue(w)
                     argument  == worker'[w].videoPath
                     converted == IF worker[w].pc = "await" THEN call[w].result.path
                                  ELSE worker'[w].source
                 IN  /\ session = SessionFileIn(VideoDirectory, w)
                     /\ session \in DOMAIN fs'
                     /\ NativeFeed(argument) =>
                           fs'[session].data = fs[Resolve(argument)].data
                     /\ detectFormat(argument) \in {"video", "image"} =>
                           /\ converted # Resolve(argument)
                           /\ NativeFeed(converted)
                           /\ fs'[session].data = fs[converted].data
                     /\ DOMAIN fs' = DOMAIN fs
                     /\ \A p \in DOMAIN fs : p # session => fs'[p] = fs[p]
                     /\ device' = device
          ]_vars

\* a desktop Chrome worker has changed its feed twice, last to a converted
\* video, which its session file holds in place of the native default feed
C29_Witness ==
    /\ DesktopChrome("p")
    /\ worker["p"].pc = "ready"
    /\ ncalls = 2
    /\ worker["q"].videoPath = None
    /\ worker["p"].videoPath = RelFile("clip", ExtMp4)
    /\ worker["p"].result = Returned("written")
    /\ detectFormat(_options.defaultCameraFeed) = "y4m"
    /\ fs[SessionFileIn(VideoDirectory, "p")].data.kind = "encoded"
    /\ fs[SessionFileIn(VideoDirectory, "p")].data.media.input = BytesOf(RelFile("clip", ExtMp4))

\* the capabilities of worker w carry the capture flag
HasCaptureFlag(w) ==
    \E i \in 1..Len(ArgsOf(worker[w].capabilities)) :
        ArgsOf(worker[w].capabilities)[i].name = "--use-file-for-fake-video-capture"

\* the session feed of worker w, local or on the device, is as it was
SessionFeedUnchanged(w) ==
    /\ device' = device
    /\ \A p \in (DOMAIN fs) \cup (DOMAIN fs') :
          (p.dir = VideoDirectory /\ p.base = [name |-> Cid(w)]) =>
              /\ p \in DOMAIN fs <=> p \in DOMAIN fs'
              /\ p \in DOMAIN fs => fs'[p] = fs[p]

\* C30: a command of changeCameraSource changes the session feed only if
\* the capabilities carry the capture flag, the new source file exists and,
\* on desktop, the session feed file exists.  Without the flag the command
\* returns without error and changes no file; with the flag and a missing
\* source it throws an error naming the source path, with the flag and, on
\* desktop, a missing session file it throws an error naming the session
\* file, and in both cases the session feed is unchanged.
C30_ChangeGuards ==
    [][ \A w \in Calls :
          Ends(w) =>
              LET source  == Resolve(worker'[w].videoPath)
                  desktop == ~OnAndroid(worker[w].requested)
                  outcome == worker'[w].result
              IN  /\ ~SessionFeedUnchanged(w) =>
                        /\ HasCaptureFlag(w)
                        /\ source \in DOMAIN fs
                        /\ desktop => CaptureFlagValue(w) \in DOMAIN fs
                  /\ ~HasCaptureFlag(w) =>
                        /\ outcome.kind = "ok"
                        /\ fs' = fs /\ device' = device /\ dirs' = dirs
                  /\ (HasCaptureFlag(w) /\ source \notin DOMAIN fs) =>
                        /\ outcome.kind = "error"
                        /\ outcome.message.path = source
                        /\ SessionFeedUnchanged(w)
                  /\ ( /\ HasCaptureFlag(w)
                        /\ source \in DOMAIN fs
                        /\ desktop
                        /\ CaptureFlagValue(w) \notin DOMAIN fs ) =>
                        /\ outcome.kind = "error"
                        /\ outcome.name = "Error"
                        /\ outcome.message.path = CaptureFlagValue(w)
                        /\ SessionFeedUnchanged(w)
      ]_vars

\* a command of worker w starts in this step (a command that repeats the
\* last one with the same outcome leaves the record of its worker as it was)
Commands(w) ==
    /\ worker[w].pc = "ready"
    /\ ncalls' = ncalls + 1
    /\ worker'[w].videoPath # None
    /\ worker'[w] # worker[w] \/ worker' = worker

\* the command that starts calls convert: flag, source file, and an
\* extension that requires conversion
CallsConvert(w) ==
    /\ HasCaptureFlag(w)
    /\ Resolve(worker'[w].videoPath) \in DOMAIN fs
    /\ detectFormat(worker'[w].videoPath) \in {"video", "image"}

\* C31: every convert call of the service is preceded by a completed
\* initialize() of the same converter: when a command of a worker calls
\* convert, initialize() of that worker's converter has completed in an
\* earlier step (and the cache directory of a caching converter exists);
\* when onPrepare calls convert or leaves a converter behind, initialize()
\* of the launcher's converter has completed; no convert call is in flight
\* for a process whose converter is not initialized.
C31_InitializedBeforeConvert ==
    /\ [](\A c \in Calls :
            call[c].op = "convert" =>
                \/ worker[c].initialized
                \/ c = "p" /\ launcher.pc = "converting" /\ launcher.initialized)
    /\ [](launcher.converter # None => launcher.initialized)
    /\ [](launcher.convertedDefaultFeed # None => launcher.initialized)
    /\ [][
        /\ \A w \in Calls :
              (Commands(w) /\ CallsConvert(w)) =>
                  /\ worker[w].initialized
                  /\ converter[w].cacheEnabled => CacheDir \in dirs
        /\ launcher'.pc = "converting" =>
              /\ launcher'.initialized
              /\ converter["p"].cacheEnabled => CacheDir \in dirs'
      ]_vars

\* a worker's command has called convert, which is running the encoder,
\* after the launcher converted the default feed
C31_Witness ==
    /\ launcher.convertedDefaultFeed # None
    /\ \E w \in Calls :
          /\ worker[w].pc = "await"
          /\ worker[w].initialized
          /\ call[w].op = "convert"
          /\ call[w].runs = 1

\* the default feed is a video or an image
DefaultFeedConvertible == detectFormat(_options.defaultCameraFeed) \in {"video", "image"}

\* C32: when defaultCameraFeed requires conversion, it has been converted in
\* onPrepare before any worker is started; onWorkerStart starts no encoder,
\* and every session file it writes holds a converted feed in a native
\* format, never the bytes of the unconverted source, for every worker.
C32_SessionHoldsConvertedDefault ==
    /\ [](DefaultFeedConvertible =>
             \A w \in Calls :
                 worker[w].pc # "none" =>
                     /\ launcher.convertedDefaultFeed # None
                     /\ NativeFeed(launcher.convertedDefaultFeed))
    /\ [][ \A w \in Calls :
             (DefaultFeedConvertible /\ Starts(w)) =>
                 /\ call' = call
                 /\ \A p \in (DOMAIN fs') \ (DOMAIN fs) :
                       /\ p = SessionFileIn(VideoDirectory, w)
                       /\ fs'[p].data.kind = "encoded"
                       /\ fs'[p].data # fs[Resolve(_options.defaultCameraFeed)].data
                 /\ \A p \in DOMAIN fs : p \in DOMAIN fs' /\ fs'[p] = fs[p]
          ]_vars

\* the encoder is started for a conversion of caller c in this step
EncoderStarts(c) == call'[c].runs > call[c].runs

\* C33: each conversion run of the encoder is preceded by a successful
\* availability probe: the conversion of the default feed in onPrepare by
\* the probe of onPrepare, and a conversion that changeCameraSource starts
\* by a probe as well (here even the launcher's probe is accepted for a
\* worker); a command never ends in a ConversionError without a probe
\* having succeeded.
C33_ProbeBeforeEveryConversion ==
    [][ \A c \in Calls :
          /\ EncoderStarts(c) =>
                /\ launcher'.probe # None
                /\ launcher'.probe.available
          /\ (Ends(c) /\ worker'[c].result.kind = "error"
                      /\ worker'[c].result.name = "ConversionError") =>
                /\ launcher.probe # None
                /\ launcher.probe.available
      ]_vars

(* ---------------------------------------------------------------------- *)
(* Further claims about the converter (Spec)                               *)
(* ---------------------------------------------------------------------- *)
\* the extensions of the convertible formats
ConvertibleExts ==
    { e[1] : e \in { x \in EXTENSION_TO_FORMAT : x[2] \in {"video", "image"} } }

\* C34: convert never replaces or changes a file that existed before the
\* call and that no conversion produced: every file that was there at the
\* start is still there with its content; and with caching disabled the
\* destination of a call is not the destination of a source of the same
\* directory and base name with another convertible extension.
C34_PreexistingFilesKept ==
    /\ \A i \in 1..Len(InitialFiles) :
          /\ InitialFiles[i][1] \in DOMAIN fs
          /\ fs[InitialFiles[i][1]].data = [kind |-> "source", bytes |-> InitialFiles[i][2]]
    /\ \A c \in Calls :
          (call[c].op = "convert" /\ call[c].out # None /\ ~call[c].cfg.cacheEnabled) =>
              \A e \in ConvertibleExts :
                  e # ToLowerCase(call[c].abs.ext) =>
                      OutputPath(call[c].cfg, [call[c].abs EXCEPT !.ext = e], NoHash)
                          # call[c].out

(* ---------------------------------------------------------------------- *)
(* Specification: one content under two format classes                     *)
(* ---------------------------------------------------------------------- *)
\* two files with the same bytes, one with a video extension and one with an
\* image extension
StillGif == AbsFile("still", ExtGif)
StillPng == AbsFile("still", ExtPng)

\* the first converter caches, the second caches or not; calls do not overlap
InitClass ==
    /\ fs = [p \in {StillGif, StillPng} |-> SourceFile(BytesPhoto)]
    /\ dirs = {MediaDir}
    /\ converter \in [Calls -> { cfg \in Configs : cfg.outputFormat = OutMjpeg }]
    /\ converter["p"].cacheEnabled
    /\ call = [c \in Calls |-> IdleCall]
    /\ ncalls = 0
    /\ hashed = NoHash
    /\ NoService

NextClass ==
    \/ \E c \in Calls, sourcePath \in {StillGif, StillPng} : Quiet /\ ConvertBegin(c, sourcePath)
    \/ \E c \in Calls : Initialize(c)
    \/ \E c \in Calls : EncoderOpen(c)
    \/ \E c \in Calls : EncoderFinish(c)
    \/ \E c \in Calls : EncoderFail(c)
    \/ \E c \in Calls : ConvertResume(c)
    \/ \E c \in Calls : CatchUnlink(c)

SpecClass == InitClass /\ [][NextClass]_vars

\* what the encoder produces for a source under the source's own class
OwnClassOutput(absolutePath) ==
    EncoderOutput(IF detectFormat(absolutePath) = "image"
                  THEN convertImage(absolutePath, absolutePath)
                  ELSE convertVideo(absolutePath, absolutePath))

\* C35: the file returned on a cache hit is the result the encoder produces
\* for the requested source under the source's own format class (the single
\* frame of an image, the whole stream of a video), as a converter without
\* caching delivers it; and two sources with identical bytes, one a
\* convertible video and one a convertible image, never have the same cache
\* entry as their result.
C35_HitOfOwnClass ==
    /\ \A c \in Calls :
          ( /\ call[c].op = "convert" /\ call[c].pc = "done"
            /\ call[c].result.kind = "ok"
            /\ call[c].result.path \in DOMAIN fs ) =>
              fs[call[c].result.path].data.media = OwnClassOutput(call[c].abs)
    /\ \A c, d \in Calls :
          ( /\ call[c].op = "convert" /\ call[c].pc = "done" /\ call[c].result.kind = "ok"
            /\ call[d].op = "convert" /\ call[d].pc = "done" /\ call[d].result.kind = "ok"
            /\ call[c].format = "video" /\ call[d].format = "image" ) =>
              call[c].result.path # call[d].result.path

(* ---------------------------------------------------------------------- *)
(* Further claims about the camera service (SpecService)                   *)
(* ---------------------------------------------------------------------- *)
\* the container of the content of a session file that was filled from the
\* file source: the muxer of the encoder for an encoded stream, the
\* (lower-cased) extension of the file the bytes were copied from otherwise
HeldContainer(session, source) ==
    IF fs[session].data.kind = "encoded"
    THEN IF fs[session].data.media.f = "mjpeg" THEN ExtMjpeg ELSE ExtY4m
    ELSE ToLowerCase(source.ext)

\* worker w has a local session file that onWorkerStart or its last
\* command has filled
SessionFilled(w) ==
    /\ worker[w].pc \in {"started", "ready"}
    /\ worker[w].requested # None
    /\ ~OnAndroid(worker[w].requested)
    /\ worker[w].source # None
    /\ worker[w].result = None \/ worker[w].result = Returned("written")
    /\ SessionFileIn(VideoDirectory, w) \in DOMAIN fs

\* C36: the extension of a session feed file is the container of the bytes
\* it holds: of the native file it was copied from (a .y4m feed under output
\* format mjpeg, a .mjpeg feed under output format y4m, a changeCameraSource
\* to a native file of the other container), or of the encoder's muxer.
C36_SessionExtensionIsContainer ==
    \A w \in Calls :
        ( /\ SessionFilled(w)
          /\ \/ NativeFeed(worker[w].source)
             \/ fs[SessionFileIn(VideoDirectory, w)].data.kind = "encoded" ) =>
            SessionFileIn(VideoDirectory, w).ext =
                HeldContainer(SessionFileIn(VideoDirectory, w), worker[w].source)

\* C37: for every browser whose name contains 'chrom' (the browsers that
\* onWorkerStart gives the camera flags), a changeCameraSource command that
\* has returned without error has replaced the session feed: it wrote the
\* session file or pushed the feed to the device.
C37_ChromBrowsersReplaceFeed ==
    \A w \in Calls :
        ( /\ worker[w].requested # None
          /\ BrowserNameHas(worker[w].requested, <<"c","h","r","o","m">>)
          /\ worker[w].pc = "ready"
          /\ worker[w].videoPath # None
          /\ worker[w].result.kind = "ok" ) =>
            /\ HasCaptureFlag(w)
            /\ worker[w].result.how \in {"written", "pushed"}

\* the temporary file of an encoder run (<destination>.tmp)
IsTemporary(p) ==
    /\ Len(p.ext) >= 4
    /\ SubSeq(p.ext, Len(p.ext) - 3, Len(p.ext)) = <<".","t","m","p">>

\* a file that exists changes its content or is removed in this step
ContentChanges(p) ==
    /\ p \in DOMAIN fs
    /\ p \notin DOMAIN fs' \/ fs'[p].data # fs[p].data

\* a command of worker w is under way in this step: it starts, or it waits
\* for its conversion
InCommand(w) == Commands(w) \/ worker[w].pc = "await"

\* C38: while a changeCameraSource command of a worker is under way, the only
\* already existing file whose content changes is the session feed file
\* <videoDirectory>/<cid>.<ext> that onWorkerStart created for that worker:
\* no session file of another worker, no file named by a capture flag the
\* capabilities carried before onWorkerStart, no source media file and no
\* cache entry.  (The temporary file of the command's own encoder run is not
\* an already existing file.)
C38_ChangesOwnSessionFileOnly ==
    [][ (\E w \in Calls : InCommand(w)) =>
            \A p \in DOMAIN fs :
                (ContentChanges(p) /\ ~IsTemporary(p)) =>
                    \E w \in Calls :
                        /\ InCommand(w)
                        /\ p = SessionFileIn(VideoDirectory, w)
      ]_vars

(* ---------------------------------------------------------------------- *)
(* Specification: progress of convert                                      *)
(* ---------------------------------------------------------------------- *)
\* an encoder that was started exits (execAsync sets no timeout: this is what
\* the subprocess has to do by itself), and the event loop runs the
\* continuation of convert after the await and the synchronous steps of its
\* catch block
Fairness ==
    \A c \in Calls :
        /\ WF_vars(EncoderFinish(c) \/ EncoderFail(c))
        /\ WF_vars(ConvertResume(c))
        /\ WF_vars(CatchExists(c))
        /\ WF_vars(CatchUnlink(c))

\* the sourcePath arguments: a video, an image, a native feed, an
\* unrecognized file and a missing file
LiveArgs ==
    { AbsFile("clip", ExtMp4), AbsFile("photo", ExtPng),
      RelFile("feed", <<".","Y","4","M">>), AbsFile("notes", ExtTxt),
      AbsFile("gone", ExtMp4) }

\* overlapping convert calls of the two converters
NextLive ==
    \/ \E c \in Calls, sourcePath \in LiveArgs : ConvertBegin(c, sourcePath)
    \/ \E c \in Calls : Initialize(c)
    \/ \E c \in Calls : EncoderOpen(c)
    \/ \E c \in Calls : EncoderFinish(c)
    \/ \E c \in Calls : EncoderFail(c)
    \/ \E c \in Calls : ConvertResume(c)
    \/ \E c \in Calls : CatchExists(c)
    \/ \E c \in Calls : CatchUnlink(c)

SpecLive == Init /\ [][NextLive]_vars /\ Fairness

\* the call that begins needs no encoder: the source is missing, native or
\* unrecognized, or its cache entry exists
NeedsNoEncoder(cfg, absolutePath) ==
    \/ ~Exists(absolutePath)
    \/ detectFormat(absolutePath) \in {"mjpeg", "y4m", "unknown"}
    \/ cfg.cacheEnabled /\ Exists(CachePath(cfg, computeFileHash(absolutePath)))

\* C39: every convert call that is under way eventually returns a path or
\* throws, given that the encoder it started exits; and a call that needs
\* no encoder (missing, native or unrecognized source, cache hit) has
\* completed when convert is entered, with no encoder started, while every
\* other call starts one and awaits it.
C39_ConvertReturns ==
    /\ \A c \in Calls :
          (call[c].pc \in {"await", "catch", "unlink"}) ~>
              ( /\ call[c].pc = "done"
                /\ call[c].op = "convert"
                /\ call[c].result.kind \in {"ok", "error"} )
    /\ [][ \A c \in Calls :
             ( /\ call[c].pc \in {"idle", "done"}
               /\ call'[c] # call[c]
               /\ call'[c].op = "convert" ) =>
                 IF NeedsNoEncoder(call'[c].cfg, call'[c].abs)
                 THEN /\ call'[c].pc = "done"
                      /\ call'[c].result.kind \in {"ok", "error"}
                      /\ call'[c].enc = "none"
                      /\ call'[c].runs = 0
                 ELSE /\ call'[c].pc = "await"
                      /\ call'[c].enc = "spawned"
          ]_vars

\* one call has returned the path its encoder run produced and the other has
\* thrown the ConversionError of an encoder that failed
C39_Witness ==
    \E c, d \in Calls :
        /\ call[c].op = "convert" /\ call[c].pc = "done"
        /\ call[c].runs = 1 /\ call[c].result.kind = "ok"
        /\ call[d].op = "convert" /\ call[d].pc = "done"
        /\ call[d].runs = 1 /\ call[d].result.kind = "error"
        /\ call[d].result.name = "ConversionError"

====
